---- MODULE Spec2Model ----
(***************************************************************************)
(* Model of the mobility / connection-management core of RRC_Simluator:   *)
(*   src/srsRAN_5G/srsRAN_5G/enhanced_ue_mobility_controller_v2.py         *)
(*   src/srsRAN_5G/srsRAN_5G/channel_models.py                             *)
(*                                                                         *)
(* Numbers.  Coordinates and distances are integers (one grid cell is one *)
(* kilometre), RSRP values are integer dB, simulated time is counted in   *)
(* tenths of a second.  random.uniform(0, 5) is a draw from FadingLevels, *)
(* random.random() < p is a draw from BOOLEAN, random.uniform(0, 2*pi) a   *)
(* draw from the four axis headings.  Wall-clock stamps (time.time(),     *)
(* datetime.now()) are not part of the records.  Where the code's floats   *)
(* differ from the whole numbers in a way a comparison sees, the model    *)
(* carries the difference: float_mod for the wrap of a directed UE,       *)
(* sum_falls_short for the accumulated simulation_time.                    *)
(*                                                                         *)
(* Random sources.  config.free names the random sources whose draws are  *)
(* left open in a run; a source that is not named always returns its      *)
(* first value (fading 0, no pause, no heading change, no join/leave      *)
(* event, Popen succeeds), as under a stubbed random generator.  The       *)
(* source "save" is the file system under save_data: closed, every open   *)
(* and write succeeds.  The source "rounding" is the rounding error of    *)
(* the float sums of the group step: closed, the sums are exact.  Each    *)
(* specification opens the sources its claims are about.                  *)
(***************************************************************************)
EXTENDS Integers, Sequences, FiniteSets, TLC

VARIABLES
    config,           \* inputs of the run: topology, time_step, duration, free
    is_running,       \* NetworkSimulator.is_running
    simulation_time,  \* NetworkSimulator.simulation_time (tenths of a second)
    gnbs,             \* NetworkSimulator.gnbs: list of gNB ids
    ues,              \* NetworkSimulator.ues: list of UE ids
    gnb,              \* the GNB objects, by id
    ue,               \* the UE objects, by id
    event_log,        \* NetworkSimulator.event_log
    rsrp_log,         \* NetworkSimulator.rsrp_log
    sink,             \* the three files save_data last wrote
    pc,               \* position of the thread running start_simulation
    loc,              \* its local variables (loop indices, measurements)
    outside           \* the last call from outside that thread which returned
                      \* at its guard (line 465 or 518), "none" before any

vars == <<config, is_running, simulation_time, gnbs, ues, gnb, ue,
          event_log, rsrp_log, sink, pc, loc, outside>>

-----------------------------------------------------------------------------
(* Program constants *)

None == 0
NegInf == -1000
handover_threshold == -105
a3_offset == 3
coverage_threshold == -110
MaxFading == 5
noise_power == -100

(* Bounds of the model *)
MaxTicks == 2
MaxPasses == 1
MaxMoves == 3

-----------------------------------------------------------------------------
(* Small helpers *)

ISqrt(n) == CHOOSE r \in 0..n : r * r <= n /\ (r + 1) * (r + 1) > n

Range(s) == {s[k] : k \in 1..Len(s)}

IndexOf(s, e) == CHOOSE k \in 1..Len(s) : s[k] = e

RemoveFirst(s, e) ==
    IF e \in Range(s)
    THEN LET k == IndexOf(s, e)
         IN  SubSeq(s, 1, k - 1) \o SubSeq(s, k + 1, Len(s))
    ELSE s

\* a pair of floats: x, y the whole numbers they stand for, rx, ry the sign
\* of what the floats hold beyond them (a rounding error far below one cell)
Position(x, y) == [x |-> x, y |-> y, rx |-> 0, ry |-> 0]

distance_to(p, q) == ISqrt((p.x - q.x) * (p.x - q.x) + (p.y - q.y) * (p.y - q.y))

-----------------------------------------------------------------------------
(* channel_models.py: SimplifiedChannelModel *)

\* the values random.uniform(0, 5) is sampled at; all of them when the
\* fading source is open, the first one when it is stubbed
FadingLevels == {0, 2, MaxFading}

FadingDraws == IF "fading" \in config.free THEN FadingLevels ELSE {0}

\* 20 * log10(distance_km), distance_km already clamped to >= 0.001
Log20Dist(d) ==
    CASE d = 0 -> -60
      [] d = 1 -> 0
      [] d = 2 -> 6
      [] d = 3 -> 10
      [] d = 4 -> 12
      [] d = 5 -> 14
      [] d = 6 -> 16
      [] d = 7 -> 17
      [] OTHER -> 18

\* 20 * log10(frequency) for the frequencies of the model's stations (MHz)
Log20Freq(f) == IF f >= 3350 THEN 71 ELSE 70

\* math.log10 raises ValueError on a non-positive argument
LogDefined(g) == g.frequency > 0

path_loss(g, pos) ==
    32 + Log20Freq(g.frequency) + Log20Dist(distance_to(g.position, pos))

\* a calculate_rsrp that gives each UE the station serves a share of the power
calculate_rsrp_shared(g, pos, fading) ==
    IF LogDefined(g)
    THEN g.power - path_loss(g, pos) - fading - Len(g.connected_ues)
    ELSE NegInf

\* a calculate_rsrp that takes the path loss of a frequency it has no
\* logarithm of as that of the lowest band
calculate_rsrp_any_frequency(g, pos, fading) == g.power - path_loss(g, pos) - fading

\* calculate_rsrp with the fading draw made explicit
calculate_rsrp(g, pos, fading) ==
    IF LogDefined(g) THEN g.power - path_loss(g, pos) - fading ELSE NegInf

\* an is_in_coverage with a margin of the widest fading below the threshold
is_in_coverage_with_margin(g, pos, threshold, fading) ==
    calculate_rsrp(g, pos, fading) >= threshold - MaxFading

\* is_in_coverage computes the RSRP again: it takes a fading draw of its own
is_in_coverage(g, pos, threshold, fading) ==
    calculate_rsrp(g, pos, fading) >= threshold

\* 10 * log10(10^(a/10) + 10^(b/10)): the sum of two powers given in dB,
\* to the nearest dB; a power of 10^(-inf/10) = 0.0 adds nothing
DbSum(a, b) ==
    IF a = NegInf THEN b
    ELSE IF b = NegInf THEN a
    ELSE LET hi == IF a >= b THEN a ELSE b
             lo == IF a >= b THEN b ELSE a
         IN  hi + (CASE hi - lo <= 1 -> 3
                     [] hi - lo <= 3 -> 2
                     [] hi - lo <= 9 -> 1
                     [] OTHER -> 0)

\* the loop of lines 55-59 over interfering_gnbs[k..], in dB; G: the GNB
\* objects, fading: the draw of each station's calculate_rsrp call
RECURSIVE interference_power(_, _, _, _, _, _)
interference_power(G, g, pos, interfering_gnbs, fading, k) ==
    IF k > Len(interfering_gnbs) THEN NegInf
    ELSE LET h == interfering_gnbs[k]
             rest == interference_power(G, g, pos, interfering_gnbs, fading, k + 1)
         IN  IF h # g THEN DbSum(calculate_rsrp(G[h], pos, fading[h]), rest)
             ELSE rest

\* calculate_sinr; math.log10(0.0) raises ValueError for a signal of -inf
calculate_sinr(G, g, pos, interfering_gnbs, fading) ==
    LET signal == calculate_rsrp(G[g], pos, fading[g])
        interference == interference_power(G, g, pos, interfering_gnbs, fading, 1)
    IN  IF signal = NegInf THEN NegInf
        ELSE signal - DbSum(interference, noise_power)

-----------------------------------------------------------------------------
(* channel_models.py: ExternalChannelModelPlaceholder *)

\* an external_simulator_api object (None: no such object); nothing in the
\* source says what it offers: here it has an answer of its own to each of
\* the three calls
ExternalSource == 1

ExternalAnswers == [rsrp |-> -80, sinr |-> 20, in_coverage |-> TRUE]

\* a calculate_rsrp that has no answer when it has no external source
external_calculate_rsrp_no_fallback(api, g, pos, fading) ==
    IF api # None THEN calculate_rsrp(g, pos, fading)
    ELSE NegInf

\* "if self.api: pass", then the call of a fresh SimplifiedChannelModel
external_calculate_rsrp(api, g, pos, fading) ==
    IF api # None THEN calculate_rsrp(g, pos, fading)
    ELSE calculate_rsrp(g, pos, fading)

external_calculate_sinr(api, G, g, pos, interfering_gnbs, fading) ==
    IF api # None THEN calculate_sinr(G, g, pos, interfering_gnbs, fading)
    ELSE calculate_sinr(G, g, pos, interfering_gnbs, fading)

external_is_in_coverage(api, g, pos, threshold, fading) ==
    IF api # None THEN is_in_coverage(g, pos, threshold, fading)
    ELSE is_in_coverage(g, pos, threshold, fading)

\* the two objects main can hand to NetworkSimulator as channel_model
SimplifiedChannelModel == [class |-> "SimplifiedChannelModel", api |-> None]

ExternalChannelModelPlaceholder(external_simulator_api) ==
    [class |-> "ExternalChannelModelPlaceholder", api |-> external_simulator_api]

\* cm.calculate_rsrp(...), cm.calculate_sinr(...), cm.is_in_coverage(...) for
\* a channel model object cm
channel_model_calculate_rsrp(cm, g, pos, fading) ==
    IF cm.class = "ExternalChannelModelPlaceholder"
    THEN external_calculate_rsrp(cm.api, g, pos, fading)
    ELSE calculate_rsrp(g, pos, fading)

channel_model_calculate_sinr(cm, G, g, pos, interfering_gnbs, fading) ==
    IF cm.class = "ExternalChannelModelPlaceholder"
    THEN external_calculate_sinr(cm.api, G, g, pos, interfering_gnbs, fading)
    ELSE calculate_sinr(G, g, pos, interfering_gnbs, fading)

channel_model_is_in_coverage(cm, g, pos, threshold, fading) ==
    IF cm.class = "ExternalChannelModelPlaceholder"
    THEN external_is_in_coverage(cm.api, g, pos, threshold, fading)
    ELSE is_in_coverage(g, pos, threshold, fading)

-----------------------------------------------------------------------------
(* GNB and UE objects *)

\* GNB.__init__
NewGNB(c) ==
    [position |-> c.position, frequency |-> c.frequency, power |-> c.power,
     connected_ues |-> <<>>]

\* UE.__init__: the object records its first position (record_position);
\* the heading and the group offset it draws come with the configuration
NewUE(c) ==
    [position |-> c.position, mobility_type |-> c.mobility_type,
     speed |-> c.speed, connected_gnb |-> None, process |-> "none",
     is_running |-> FALSE, trajectory |-> <<c.position>>,
     direction |-> c.direction, is_moving |-> TRUE,
     waypoints |-> <<>>, current_waypoint_index |-> 1,
     group_center |-> None, group_offset |-> c.group_offset]

\* UE.set_waypoints (indices count from 1 here, from 0 in the source)
set_waypoints(o, waypoints) ==
    [o EXCEPT !.waypoints = waypoints, !.current_waypoint_index = 1]

\* UE.set_group_center
set_group_center(o, center_ue) == [o EXCEPT !.group_center = center_ue]

\* a record_position that appends the sample it appended last
record_position_repeating(o) == [o EXCEPT !.trajectory = Append(@, @[Len(@)])]

\* UE.record_position
record_position(o) == [o EXCEPT !.trajectory = Append(@, o.position)]

\* a connect_to_gnb that leaves the UE in the old station's list
connect_to_gnb_keep(U, G, u, g) ==
    IF U[u].connected_gnb = g
    THEN [ue |-> U, gnb |-> G]
    ELSE LET G2 == IF g # None /\ u \notin Range(G[g].connected_ues)
                   THEN [G EXCEPT ![g].connected_ues = Append(@, u)]
                   ELSE G
         IN  [ue |-> [U EXCEPT ![u].connected_gnb = g], gnb |-> G2]

\* a connect_to_gnb that also enters the UE at the stations it passes over
connect_to_gnb_everywhere(U, G, u, g) ==
    IF U[u].connected_gnb = g
    THEN [ue |-> U, gnb |-> G]
    ELSE LET old == U[u].connected_gnb
         IN  [ue |-> [U EXCEPT ![u].connected_gnb = g],
              gnb |-> [h \in DOMAIN G |->
                          IF h = old
                          THEN [G[h] EXCEPT !.connected_ues = RemoveFirst(@, u)]
                          ELSE IF g # None /\ u \notin Range(G[h].connected_ues)
                          THEN [G[h] EXCEPT !.connected_ues = Append(@, u)]
                          ELSE G[h]]]

\* a connect_to_gnb that enters the UE in the list of the station whether or
\* not it is the station it has
connect_to_gnb_relist(U, G, u, g) ==
    LET old == U[u].connected_gnb
        G1 == IF old # None /\ old # g
              THEN [G EXCEPT ![old].connected_ues = RemoveFirst(@, u)]
              ELSE G
        G2 == IF g # None
              THEN [G1 EXCEPT ![g].connected_ues = Append(@, u)]
              ELSE G1
    IN  [ue |-> [U EXCEPT ![u].connected_gnb = g], gnb |-> G2]

\* UE.connect_to_gnb on the object graph (U: the UE objects, G: the GNB
\* objects); returns both maps
connect_to_gnb(U, G, u, g) ==
    IF U[u].connected_gnb = g
    THEN [ue |-> U, gnb |-> G]
    ELSE LET old == U[u].connected_gnb
             G1 == IF old # None
                   THEN [G EXCEPT ![old].connected_ues = RemoveFirst(@, u)]
                   ELSE G
             G2 == IF g # None /\ u \notin Range(G1[g].connected_ues)
                   THEN [G1 EXCEPT ![g].connected_ues = Append(@, u)]
                   ELSE G1
         IN  [ue |-> [U EXCEPT ![u].connected_gnb = g], gnb |-> G2]

-----------------------------------------------------------------------------
(* Logs and persistence *)

\* the record log_event appends; the message text is kept as its kind and
\* the values formatted into it
Event(message, u, from_gnb, to_gnb, rsrp, to_rsrp) ==
    [simulation_time |-> simulation_time, message |-> message, ue_id |-> u,
     from_gnb |-> from_gnb, to_gnb |-> to_gnb, rsrp |-> rsrp, to_rsrp |-> to_rsrp]

Note(message) == Event(message, None, None, None, NegInf, NegInf)

\* a log_event that puts the newest record first
log_event_newest_first(log, e) == << e >> \o log

log_event(log, e) == Append(log, e)

log_rsrp(log, u, g, rsrp) ==
    Append(log, [simulation_time |-> simulation_time, ue_id |-> u,
                 gnb_id |-> g, rsrp |-> rsrp])

\* what save_data writes: each file is rewritten whole
save_data(U, events, rsrps) ==
    [trajectories |-> [u \in DOMAIN U |-> U[u].trajectory],
     event_log |-> events,
     rsrp_log |-> rsrps]

\* the files after a save_data that raised at the open of its file number
\* failed (1: trajectories, 2: events, 3: measurements): the files before it
\* are written (new), the others are as they were (old)
save_data_raising(old, new, failed) ==
    [trajectories |-> IF failed > 1 THEN new.trajectories ELSE old.trajectories,
     event_log |-> IF failed > 2 THEN new.event_log ELSE old.event_log,
     rsrp_log |-> old.rsrp_log]

\* the outcome of one call of save_data: 0, it returns; 1..3, the open of
\* that file raises OSError
SaveDraws == IF "save" \in config.free THEN 0..3 ELSE {0}

NoSink == [trajectories |-> <<>>, event_log |-> <<>>, rsrp_log |-> <<>>]

\* locals of start_simulation and of the methods it is inside
NoLoc == [i |-> 0, j |-> 0, current_rsrp |-> NegInf, rsrp_measurements |-> <<>>,
          best_gnb |-> None, best_rsrp |-> NegInf]

-----------------------------------------------------------------------------
(* UE.move *)

\* headings: quarter turns, 0 = 0 rad, 1 = pi/2, 2 = pi, 3 = 3*pi/2
Headings == 0..3

Cos(h) == CASE h = 0 -> 1 [] h = 2 -> -1 [] OTHER -> 0

Sin(h) == CASE h = 1 -> 1 [] h = 3 -> -1 [] OTHER -> 0

\* the least r with r * r >= n
CeilSqrt(n) == CHOOSE r \in 0..n : r * r >= n /\ (r = 0 \/ (r - 1) * (r - 1) < n)

\* move_distance >= the Euclidean length of (dx, dy)
Reaches(move_distance, dx, dy) == move_distance * move_distance >= dx * dx + dy * dy

\* move_distance * cos(atan2(dy, dx)), resp. sin for (dy, dx) swapped:
\* the component along d of a step of move_distance towards (dx, dy),
\* truncated towards zero to a whole cell
Component(move_distance, d, dx, dy) ==
    LET len == CeilSqrt(dx * dx + dy * dy)
    IN  IF d >= 0 THEN (move_distance * d) \div len
                  ELSE -((move_distance * (-d)) \div len)

\* speed * time_step (cells per second times tenths of a second)
StepLength(o, time_step) == (o.speed * time_step) \div 10

\* what the float sum position + move_distance * cos(atan2(dy, dx)) (resp.
\* sin) holds beyond the whole number it stands for: nothing, or a rounding
\* error of either sign, depending on the operands; the source "rounding"
\* closed, the sums are taken as exact
RoundingDraws ==
    IF "rounding" \in config.free
    THEN [rx : {-1, 0, 1}, ry : {-1, 0, 1}]
    ELSE {[rx |-> 0, ry |-> 0]}

\* the draws one call of move may take
MoveDraws ==
    [resume : IF "pause" \in config.free THEN BOOLEAN ELSE {TRUE},
     stop : IF "pause" \in config.free THEN BOOLEAN ELSE {FALSE},
     change : IF "heading" \in config.free THEN BOOLEAN ELSE {FALSE},
     heading : IF "heading" \in config.free THEN Headings ELSE {0},
     rounding : RoundingDraws]

random_walk(o, time_step, boundary, d) ==
    LET dir0 == IF d.change THEN d.heading ELSE o.direction
        distance == StepLength(o, time_step)
        new_x == o.position.x + distance * Cos(dir0)
        new_y == o.position.y + distance * Sin(dir0)
        bx == new_x < 0 \/ new_x > boundary[1]
        by == new_y < 0 \/ new_y > boundary[2]
        x1 == IF new_x < 0 THEN -new_x
              ELSE IF new_x > boundary[1] THEN 2 * boundary[1] - new_x ELSE new_x
        y1 == IF new_y < 0 THEN -new_y
              ELSE IF new_y > boundary[2] THEN 2 * boundary[2] - new_y ELSE new_y
        dir1 == IF bx THEN 2 - dir0 ELSE dir0
        dir2 == IF by THEN -dir1 ELSE dir1
    IN  [o EXCEPT !.direction = dir2 % 4, !.position = Position(x1, y1)]

\* the sign of what math.cos / math.sin return beyond the whole number, at
\* the headings where the exact value is 0: cos(pi/2) = 6.1e-17,
\* cos(3*pi/2) = -1.8e-16, sin(pi) = 1.2e-16, sin(0) = 0.0
CosResidue(h) == CASE h = 1 -> 1 [] h = 3 -> -1 [] OTHER -> 0

SinResidue(h) == CASE h = 2 -> 1 [] OTHER -> 0

\* the float a % b, b > 0, of a = whole + residue * (distance far below the
\* resolution of b): Python adds b to a negative remainder, and
\* b + (-1.8e-15) rounds to b; next to a whole number other than 0 the
\* residue is absorbed
float_mod(whole, residue, b) ==
    IF whole = 0 /\ residue < 0 THEN b ELSE whole % b

directed(o, time_step, boundary) ==
    LET distance == StepLength(o, time_step)
        new_x == o.position.x + distance * Cos(o.direction)
        new_y == o.position.y + distance * Sin(o.direction)
        rx == IF distance > 0 THEN CosResidue(o.direction) ELSE 0
        ry == IF distance > 0 THEN SinResidue(o.direction) ELSE 0
    IN  [o EXCEPT !.position = Position(float_mod(new_x, rx, boundary[1]),
                                        float_mod(new_y, ry, boundary[2]))]

\* a trajectory branch that goes on to the next waypoint after every step
trajectory_always_advance(o, time_step) ==
    LET target_pos == o.waypoints[o.current_waypoint_index]
        dx == target_pos.x - o.position.x
        dy == target_pos.y - o.position.y
        move_distance == StepLength(o, time_step)
    IN  IF Reaches(move_distance, dx, dy)
        THEN [o EXCEPT !.position = target_pos,
                       !.current_waypoint_index = (@ % Len(o.waypoints)) + 1]
        ELSE [o EXCEPT !.position =
                 Position(o.position.x + Component(move_distance, dx, dx, dy),
                          o.position.y + Component(move_distance, dy, dx, dy)),
                       !.current_waypoint_index = (@ % Len(o.waypoints)) + 1]

\* the trajectory branch past its "if not self.waypoints: return"
trajectory(o, time_step) ==
    LET target_pos == o.waypoints[o.current_waypoint_index]
        dx == target_pos.x - o.position.x
        dy == target_pos.y - o.position.y
        move_distance == StepLength(o, time_step)
    IN  IF Reaches(move_distance, dx, dy)
        THEN [o EXCEPT !.position = target_pos,
                       !.current_waypoint_index = (@ % Len(o.waypoints)) + 1]
        ELSE [o EXCEPT !.position =
                 Position(o.position.x + Component(move_distance, dx, dx, dy),
                          o.position.y + Component(move_distance, dy, dx, dy))]

\* the float pair (x, y) with the rounding error of the sums that gave it
Rounded(x, y, rounding) == [x |-> x, y |-> y, rx |-> rounding.rx, ry |-> rounding.ry]

\* the group branch past its "if not self.group_center: return"; there is
\* no step when distance_to_target is 0.0, and none of length 0.0; a step
\* adds move_distance * cos(direction) and move_distance * sin(direction) to
\* the position, also when move_distance is distance_to_target
group(o, center_pos, time_step, rounding) ==
    LET target_x == center_pos.x + o.group_offset.x
        target_y == center_pos.y + o.group_offset.y
        dx == target_x - o.position.x
        dy == target_y - o.position.y
        step == StepLength(o, time_step)
    IN  IF o.position = Rounded(target_x, target_y, center_pos) \/ step = 0 THEN o
        ELSE IF Reaches(step, dx, dy)
        THEN [o EXCEPT !.position = Rounded(target_x, target_y, rounding)]
        ELSE [o EXCEPT !.position =
                 Rounded(o.position.x + Component(step, dx, dx, dy),
                         o.position.y + Component(step, dy, dx, dy), rounding)]

\* a move in which a paused UE resumes whatever the resume draw
move_resumes_unasked(U, u, time_step, boundary, d) ==
    LET o == U[u]
    IN  IF d.stop
        THEN record_position([o EXCEPT !.is_moving = FALSE])
        ELSE LET m == [o EXCEPT !.is_moving = TRUE]
             IN  CASE m.mobility_type = "random_walk" ->
                        record_position(random_walk(m, time_step, boundary, d))
                   [] m.mobility_type = "directed" ->
                        record_position(directed(m, time_step, boundary))
                   [] m.mobility_type = "trajectory" ->
                        IF m.waypoints = <<>> THEN m
                        ELSE record_position(trajectory(m, time_step))
                   [] m.mobility_type = "group" ->
                        IF m.group_center = None THEN m
                        ELSE record_position(
                                 group(m, U[m.group_center].position, time_step,
                                       d.rounding))
                   [] OTHER -> record_position(m)

\* a move in which a UE without waypoints or without leader walks on along
\* its heading
move_degraded_drifts(U, u, time_step, boundary, d) ==
    LET o == U[u]
    IN  IF ~o.is_moving /\ ~d.resume
        THEN record_position(o)
        ELSE IF d.stop
        THEN record_position([o EXCEPT !.is_moving = FALSE])
        ELSE LET m == [o EXCEPT !.is_moving = TRUE]
             IN  CASE m.mobility_type = "static" -> record_position(m)
                   [] m.mobility_type = "random_walk" ->
                        record_position(random_walk(m, time_step, boundary, d))
                   [] m.mobility_type = "directed" ->
                        record_position(directed(m, time_step, boundary))
                   [] m.mobility_type = "trajectory" ->
                        IF m.waypoints = <<>>
                        THEN random_walk(m, time_step, boundary, d)
                        ELSE record_position(trajectory(m, time_step))
                   [] m.mobility_type = "group" ->
                        IF m.group_center = None
                        THEN random_walk(m, time_step, boundary, d)
                        ELSE record_position(
                                 group(m, U[m.group_center].position, time_step,
                                       d.rounding))
                   [] OTHER -> record_position(m)

\* UE.move(time_step, boundary) of UE u among the objects U, with draws d;
\* returns the UE object
move(U, u, time_step, boundary, d) ==
    LET o == U[u]
    IN  IF ~o.is_moving /\ ~d.resume
        THEN record_position(o)
        ELSE IF d.stop
        THEN record_position([o EXCEPT !.is_moving = FALSE])
        ELSE LET m == [o EXCEPT !.is_moving = TRUE]
             IN  CASE m.mobility_type = "static" -> record_position(m)
                   [] m.mobility_type = "random_walk" ->
                        record_position(random_walk(m, time_step, boundary, d))
                   [] m.mobility_type = "directed" ->
                        record_position(directed(m, time_step, boundary))
                   [] m.mobility_type = "trajectory" ->
                        IF m.waypoints = <<>> THEN m
                        ELSE record_position(trajectory(m, time_step))
                   [] m.mobility_type = "group" ->
                        IF m.group_center = None THEN m
                        ELSE record_position(
                                 group(m, U[m.group_center].position, time_step,
                                       d.rounding))
                   [] OTHER -> record_position(m)

\* UE.start; popen_ok: subprocess.Popen returned a handle (it may raise)
start(o, popen_ok) ==
    IF o.is_running THEN o
    ELSE IF popen_ok THEN [o EXCEPT !.process = "popen", !.is_running = TRUE]
    ELSE [o EXCEPT !.is_running = FALSE]

\* UE.stop
stop(o) ==
    IF ~o.is_running THEN o
    ELSE [o EXCEPT !.process = "none", !.is_running = FALSE]

-----------------------------------------------------------------------------
(* Configurations.  setup_network builds a fixed topology; the model builds *)
(* a scaled-down one from config, with station powers chosen so that the    *)
(* RSRP over the area crosses both thresholds.                              *)

GnbConf(x, y, frequency, power) ==
    [position |-> Position(x, y), frequency |-> frequency, power |-> power]

UeConf(x, y, mobility_type, speed, direction, waypoints, group_center, ox, oy) ==
    [position |-> Position(x, y), mobility_type |-> mobility_type, speed |-> speed,
     direction |-> direction, waypoints |-> waypoints,
     group_center |-> group_center, group_offset |-> Position(ox, oy)]

\* two stations ten cells apart; a random-walk UE crossing from the first to
\* the second, and a group UE following it three cells behind
LifecycleConfig ==
    [gnbs |-> << GnbConf(0, 0, 3350, 5), GnbConf(10, 0, 3400, 5) >>,
     ues |-> << UeConf(1, 0, "random_walk", 4, 0, <<>>, None, 0, 0),
                UeConf(6, 0, "group", 4, 0, <<>>, 1, -3, 0) >>,
     simulation_area |-> <<10, 10>>,
     time_step |-> 10,
     duration |-> MaxTicks * 10,
     free |-> {"events"}]

\* three equal stations and a trajectory UE that starts equidistant from the
\* first two (-108 each), then stands at a waypoint where the last two tie
\* as handover candidates (-104 each, the server at -110), then at one out
\* of reach of its server where the first and the third tie at -108
TieConfig ==
    [gnbs |-> << GnbConf(0, 0, 3350, 5), GnbConf(0, 6, 3350, 5),
                 GnbConf(4, 5, 3350, 5) >>,
     ues |-> << UeConf(0, 3, "trajectory", 3, 0,
                       << Position(2, 4), Position(3, 2) >>, None, 0, 0) >>,
     simulation_area |-> <<10, 10>>,
     time_step |-> 10,
     duration |-> MaxTicks * 10,
     free |-> {"events"}]

\* one station and a static UE next to it, run with --time-step 0.5
CadenceConfig ==
    [gnbs |-> << GnbConf(1, 0, 3350, 5) >>,
     ues |-> << UeConf(0, 0, "static", 0, 0, <<>>, None, 0, 0) >>,
     simulation_area |-> <<10, 10>>,
     time_step |-> 5,
     duration |-> MaxTicks * 5,
     free |-> {}]

\* the same, run with --time-step 0.1 --duration 1
DriftConfig ==
    [gnbs |-> << GnbConf(1, 0, 3350, 5) >>,
     ues |-> << UeConf(0, 0, "static", 0, 0, <<>>, None, 0, 0) >>,
     simulation_area |-> <<10, 10>>,
     time_step |-> 1,
     duration |-> 10,
     free |-> {}]

\* one static UE at the origin and three stations around it, all fading
\* draws open.  Near: RSRP before fading -99, -102, -104, on both sides of
\* the measurement threshold.  Edge: the UE is equidistant from two stations
\* of equal power and frequency at -108, on both sides of the coverage
\* threshold, and out of reach of the third.
PolicyConfig(stations, duration) ==
    [gnbs |-> stations,
     ues |-> << UeConf(0, 0, "static", 0, 0, <<>>, None, 0, 0) >>,
     simulation_area |-> <<10, 10>>,
     time_step |-> 10,
     duration |-> duration,
     free |-> {"fading"}]

NearStations ==
    << GnbConf(1, 0, 3350, 4), GnbConf(0, 2, 3400, 7), GnbConf(-3, 0, 3450, 9) >>

EdgeStations ==
    << GnbConf(3, 0, 3350, 5), GnbConf(-3, 0, 3350, 5), GnbConf(5, 0, 3400, 5) >>

-----------------------------------------------------------------------------
(* NetworkSimulator *)

\* NetworkSimulator.__init__
Constructed ==
    /\ is_running = FALSE
    /\ simulation_time = 0
    /\ gnbs = <<>>
    /\ ues = <<>>
    /\ gnb = <<>>
    /\ ue = <<>>
    /\ event_log = <<>>
    /\ rsrp_log = <<>>
    /\ sink = NoSink
    /\ pc = "idle"
    /\ loc = NoLoc
    /\ outside = "none"

Init ==
    /\ config \in {LifecycleConfig, TieConfig, CadenceConfig}
    /\ Constructed

\* self.channel_model: the object handed to NetworkSimulator, by default a
\* SimplifiedChannelModel (line 299)
channel_model ==
    IF "channel_model" \in DOMAIN config THEN config.channel_model
    ELSE SimplifiedChannelModel

\* the objects setup_network creates (lines 318-340), before the initial
\* attach loop
CreatedGnbs == [g \in 1..Len(config.gnbs) |-> NewGNB(config.gnbs[g])]

CreatedUes ==
    [u \in 1..Len(config.ues) |->
        LET c == config.ues[u]
            o == NewUE(c)
            w == IF c.waypoints # <<>> THEN set_waypoints(o, c.waypoints) ELSE o
        IN  IF c.group_center # None THEN set_group_center(w, c.group_center) ELSE w]

\* start_simulation up to the initial attach loop of setup_network
StartSimulation ==
    /\ pc = "idle"
    /\ ~is_running
    /\ is_running' = TRUE
    /\ simulation_time' = 0
    /\ gnbs' = [g \in 1..Len(config.gnbs) |-> g]
    /\ ues' = [u \in 1..Len(config.ues) |-> u]
    /\ gnb' = CreatedGnbs
    /\ ue' = CreatedUes
    /\ loc' = [NoLoc EXCEPT !.i = 1, !.j = 1]
    /\ pc' = "initial_attach"
    /\ UNCHANGED <<outside, config, event_log, rsrp_log, sink>>

\* a selection test that lets a later station of equal RSRP win
Better_or_equal(rsrp, best_rsrp, in_coverage) == rsrp >= best_rsrp /\ in_coverage

\* the test of the selection loops of setup_network and of the reattach:
\* "rsrp > best_rsrp and is_in_coverage(...)"
Better(rsrp, best_rsrp, in_coverage) == rsrp > best_rsrp /\ in_coverage

\* the locals at the head of the code at position p
StartLoc(p) ==
    IF p \in {"initial_attach", "move", "uc_current"}
    THEN [NoLoc EXCEPT !.i = 1, !.j = 1]
    ELSE NoLoc

\* where the thread goes when the body of a "for ue in self.ues" loop ends
\* for UE i: the body again for the next UE, or the code after the loop
NextUe(i, again, after) ==
    IF i < Len(ues)
    THEN /\ pc' = again
         /\ loc' = [NoLoc EXCEPT !.i = i + 1, !.j = 1]
    ELSE /\ pc' = after
         /\ loc' = StartLoc(after)

\* setup_network, initial attach: one pass of the inner loop for UE loc.i and
\* gNB loc.j; after the last gNB, the connect and the event
InitialAttachUsing(cm) ==
    /\ pc = "initial_attach"
    /\ \E f1 \in FadingDraws, f2 \in FadingDraws :
         LET u == ues[loc.i]
             g == gnbs[loc.j]
             rsrp == channel_model_calculate_rsrp(cm, gnb[g], ue[u].position, f1)
             take == Better(rsrp, loc.best_rsrp,
                            channel_model_is_in_coverage(cm, gnb[g], ue[u].position,
                                                         coverage_threshold, f2))
             best_rsrp == IF take THEN rsrp ELSE loc.best_rsrp
             best_gnb == IF take THEN g ELSE loc.best_gnb
             c == connect_to_gnb(ue, gnb, u, best_gnb)
         IN  IF loc.j < Len(gnbs)
             THEN /\ loc' = [loc EXCEPT !.j = @ + 1, !.best_rsrp = best_rsrp,
                                        !.best_gnb = best_gnb]
                  /\ UNCHANGED <<ue, gnb, event_log, pc>>
             ELSE /\ IF best_gnb # None
                     THEN /\ ue' = c.ue
                          /\ gnb' = c.gnb
                          /\ event_log' = log_event(event_log,
                                Event("initially connected", u, None, best_gnb,
                                      best_rsrp, NegInf))
                     ELSE /\ event_log' = log_event(event_log,
                                Event("could not find initial serving gNB", u, None,
                                      None, NegInf, NegInf))
                          /\ UNCHANGED <<ue, gnb>>
                  /\ NextUe(loc.i, "initial_attach", "start_ues")
    /\ UNCHANGED <<outside, config, is_running, simulation_time, gnbs, ues, rsrp_log, sink>>

\* setup_network, initial attach, with the channel model of the run
InitialAttach == InitialAttachUsing(channel_model)

\* start_simulation lines 474-478: start every UE, log the start
PopenDraws == IF "popen" \in config.free THEN BOOLEAN ELSE {TRUE}

StartUes ==
    /\ pc = "start_ues"
    /\ \E ok \in [DOMAIN ue -> PopenDraws] :
         ue' = [u \in DOMAIN ue |-> start(ue[u], ok[u])]
    /\ event_log' = log_event(event_log, Note("Simulation started"))
    /\ pc' = "loop"
    /\ UNCHANGED <<outside, config, is_running, simulation_time, gnbs, ues, gnb, rsrp_log,
                   sink, loc>>

\* simulation_time is a float, the sum of the time steps added so far; t
\* counts the tenths of a second it stands for.  Steps of 0.5 s and 1 s and
\* their sums are exact.  Ten steps of 0.1 s sum to 0.9999999999999999; the
\* sums at the other whole seconds up to 4 s are not below the whole number.
sum_falls_short(t, time_step) == time_step = 1 /\ t = 10

\* simulation_time < duration, duration a whole number of tenths
before_duration(t, time_step, duration) ==
    t < duration \/ (t = duration /\ sum_falls_short(t, time_step))

\* int(simulation_time)
int_seconds(t, time_step) ==
    IF sum_falls_short(t, time_step) THEN (t \div 10) - 1 ELSE t \div 10

\* a while test that looks at the duration only
LoopTest_until_duration ==
    /\ pc = "loop"
    /\ IF before_duration(simulation_time, config.time_step, config.duration)
       THEN /\ pc' = "move"
            /\ loc' = StartLoc("move")
       ELSE /\ pc' = "finally"
            /\ loc' = NoLoc
    /\ UNCHANGED <<outside, config, is_running, simulation_time, gnbs, ues, gnb, ue,
                   event_log, rsrp_log, sink>>

\* the while test of start_simulation (line 482)
LoopTest ==
    /\ pc = "loop"
    /\ IF is_running
          /\ before_duration(simulation_time, config.time_step, config.duration)
       THEN /\ pc' = "move"
            /\ loc' = StartLoc("move")
       ELSE /\ pc' = "finally"
            /\ loc' = NoLoc
    /\ UNCHANGED <<outside, config, is_running, simulation_time, gnbs, ues, gnb, ue,
                   event_log, rsrp_log, sink>>

\* lines 486-487: ue.move for UE loc.i
Move ==
    /\ pc = "move"
    /\ \E d \in MoveDraws :
         ue' = [ue EXCEPT ![ues[loc.i]] =
                   move(ue, ues[loc.i], config.time_step, config.simulation_area, d)]
    /\ NextUe(loc.i, "move", "uc_current")
    /\ UNCHANGED <<outside, config, is_running, simulation_time, gnbs, ues, gnb,
                   event_log, rsrp_log, sink>>

-----------------------------------------------------------------------------
(* update_connections, for UE loc.i *)

\* the position of the tick before: the last but one sample of the trace
ue_position_before_move(o) == o.trajectory[Len(o.trajectory) - 1]

\* the position update_connections hands to the channel model: ue.position
ue_position(o) == o.position

\* lines 389-392: the serving station's RSRP
UcCurrentUsing(cm) ==
    /\ pc = "uc_current"
    /\ LET u == ues[loc.i]
           s == ue[u].connected_gnb
       IN  IF s # None
           THEN \E f \in FadingDraws :
                  LET current_rsrp == channel_model_calculate_rsrp(
                                          cm, gnb[s], ue_position(ue[u]), f)
                  IN  /\ loc' = [loc EXCEPT !.current_rsrp = current_rsrp, !.j = 1,
                                            !.rsrp_measurements = <<>>]
                      /\ rsrp_log' = log_rsrp(rsrp_log, u, s, current_rsrp)
           ELSE /\ loc' = [loc EXCEPT !.current_rsrp = NegInf, !.j = 1,
                                      !.rsrp_measurements = <<>>]
                /\ UNCHANGED rsrp_log
    /\ pc' = "uc_measure"
    /\ UNCHANGED <<outside, config, is_running, simulation_time, gnbs, ues, gnb, ue,
                   event_log, sink>>

\* lines 389-392 with the channel model of the run
UcCurrent == UcCurrentUsing(channel_model)

\* lines 396-402: one pass of the measurement loop, for gNB loc.j
UcMeasureUsing(cm) ==
    /\ pc = "uc_measure"
    /\ \E f \in FadingDraws :
         LET u == ues[loc.i]
             g == gnbs[loc.j]
             rsrp == channel_model_calculate_rsrp(cm, gnb[g], ue_position(ue[u]), f)
         IN  /\ rsrp_log' = IF g # ue[u].connected_gnb
                            THEN log_rsrp(rsrp_log, u, g, rsrp)
                            ELSE rsrp_log
             /\ loc' = [loc EXCEPT
                          !.rsrp_measurements =
                              IF rsrp > handover_threshold
                              THEN Append(@, [gnb |-> g, rsrp |-> rsrp])
                              ELSE @,
                          !.j = IF loc.j < Len(gnbs) THEN @ + 1 ELSE 1]
             /\ pc' = IF loc.j < Len(gnbs) THEN "uc_measure" ELSE "uc_decide"
    /\ UNCHANGED <<outside, config, is_running, simulation_time, gnbs, ues, gnb, ue,
                   event_log, sink>>

\* lines 396-402 with the channel model of the run
UcMeasure == UcMeasureUsing(channel_model)

\* a candidate list that keeps the serving station
potential_targets_with_server(rsrp_measurements, connected_gnb) == rsrp_measurements

\* line 410
potential_targets(rsrp_measurements, connected_gnb) ==
    SelectSeq(rsrp_measurements, LAMBDA m : m.gnb # connected_gnb)

NoCandidate == [gnb |-> None, rsrp |-> NegInf]

\* lines 405-412: max(potential_targets, key=rsrp), the first of the maxima
best_candidate(targets) ==
    IF targets = <<>> THEN NoCandidate
    ELSE LET k == CHOOSE k \in 1..Len(targets) :
                    /\ \A l \in 1..Len(targets) : targets[l].rsrp <= targets[k].rsrp
                    /\ \A l \in 1..(k - 1) : targets[l].rsrp < targets[k].rsrp
         IN  targets[k]

\* a decision whose offset test is not strict
perform_handover_not_strict(best_candidate_gnb, best_candidate_rsrp, current_rsrp) ==
    /\ best_candidate_gnb # None
    /\ \/ best_candidate_rsrp >= current_rsrp + a3_offset
       \/ /\ current_rsrp < handover_threshold
          /\ best_candidate_rsrp > handover_threshold

\* a decision without the recovery branch
perform_handover_offset_only(best_candidate_gnb, best_candidate_rsrp, current_rsrp) ==
    /\ best_candidate_gnb # None
    /\ best_candidate_rsrp > current_rsrp + a3_offset

\* a decision that takes any station that is not worse than the serving one
perform_handover_any_not_worse(best_candidate_gnb, best_candidate_rsrp, current_rsrp) ==
    /\ best_candidate_gnb # None
    /\ best_candidate_rsrp >= current_rsrp

\* a decision that is taken for a UE with a serving station only
perform_handover_connected_only(best_candidate_gnb, best_candidate_rsrp, current_rsrp) ==
    /\ best_candidate_gnb # None
    /\ current_rsrp # NegInf
    /\ \/ best_candidate_rsrp > current_rsrp + a3_offset
       \/ /\ current_rsrp < handover_threshold
          /\ best_candidate_rsrp > handover_threshold

\* a decision that gives the offset to the candidate instead of the server
perform_handover_offset_to_candidate(best_candidate_gnb, best_candidate_rsrp, current_rsrp) ==
    /\ best_candidate_gnb # None
    /\ \/ best_candidate_rsrp + a3_offset > current_rsrp
       \/ /\ current_rsrp < handover_threshold
          /\ best_candidate_rsrp > handover_threshold

\* lines 415-422
perform_handover(best_candidate_gnb, best_candidate_rsrp, current_rsrp) ==
    /\ best_candidate_gnb # None
    /\ \/ best_candidate_rsrp > current_rsrp + a3_offset
       \/ /\ current_rsrp < handover_threshold
          /\ best_candidate_rsrp > handover_threshold

\* lines 404-433: the handover decision, the handover, and the coverage
\* check with the disconnect
UcDecideUsing(cm) ==
    /\ pc = "uc_decide"
    /\ \E f \in FadingDraws :
         LET u == ues[loc.i]
             old == ue[u].connected_gnb
             best == best_candidate(potential_targets(loc.rsrp_measurements, old))
             ho == perform_handover(best.gnb, best.rsrp, loc.current_rsrp)
             c1 == IF ho THEN connect_to_gnb(ue, gnb, u, best.gnb)
                         ELSE [ue |-> ue, gnb |-> gnb]
             log1 == IF ho
                     THEN log_event(event_log,
                              Event("Handover", u, old, best.gnb, loc.current_rsrp,
                                    best.rsrp))
                     ELSE event_log
             s == c1.ue[u].connected_gnb
         IN  IF s # None
                /\ ~channel_model_is_in_coverage(cm, c1.gnb[s], ue_position(ue[u]),
                                                 coverage_threshold, f)
             THEN LET c2 == connect_to_gnb(c1.ue, c1.gnb, u, None)
                  IN  /\ ue' = c2.ue
                      /\ gnb' = c2.gnb
                      /\ event_log' = log_event(log1,
                             Event("out of coverage", u, s, None, loc.current_rsrp,
                                   NegInf))
                      /\ pc' = "uc_reconnect"
                      /\ loc' = [loc EXCEPT !.j = 1, !.best_gnb = None,
                                            !.best_rsrp = NegInf]
             ELSE /\ ue' = c1.ue
                  /\ gnb' = c1.gnb
                  /\ event_log' = log1
                  /\ NextUe(loc.i, "uc_current", "events")
    /\ UNCHANGED <<outside, config, is_running, simulation_time, gnbs, ues, rsrp_log, sink>>

\* lines 404-433 with the channel model of the run
UcDecide == UcDecideUsing(channel_model)

\* lines 435-446: one pass of the reattach loop, for gNB loc.j; after the
\* last gNB, the connect and the event
UcReconnectUsing(cm) ==
    /\ pc = "uc_reconnect"
    /\ \E f1 \in FadingDraws, f2 \in FadingDraws :
         LET u == ues[loc.i]
             g == gnbs[loc.j]
             rsrp == channel_model_calculate_rsrp(cm, gnb[g], ue_position(ue[u]), f1)
             take == Better(rsrp, loc.best_rsrp,
                            channel_model_is_in_coverage(cm, gnb[g], ue_position(ue[u]),
                                                         coverage_threshold, f2))
             best_rsrp == IF take THEN rsrp ELSE loc.best_rsrp
             best_gnb == IF take THEN g ELSE loc.best_gnb
             c == connect_to_gnb(ue, gnb, u, best_gnb)
         IN  IF loc.j < Len(gnbs)
             THEN /\ loc' = [loc EXCEPT !.j = @ + 1, !.best_rsrp = best_rsrp,
                                        !.best_gnb = best_gnb]
                  /\ UNCHANGED <<ue, gnb, event_log, pc>>
             ELSE /\ IF best_gnb # None
                     THEN /\ ue' = c.ue
                          /\ gnb' = c.gnb
                          /\ event_log' = log_event(event_log,
                                Event("reconnected", u, None, best_gnb, best_rsrp,
                                      NegInf))
                     ELSE /\ event_log' = log_event(event_log,
                                Event("could not find a suitable gNB to reconnect",
                                      u, None, None, NegInf, NegInf))
                          /\ UNCHANGED <<ue, gnb>>
                  /\ NextUe(loc.i, "uc_current", "events")
    /\ UNCHANGED <<outside, config, is_running, simulation_time, gnbs, ues, rsrp_log, sink>>

\* a reattach that logs nothing when it finds no station
UcReconnect_silent ==
    /\ pc = "uc_reconnect"
    /\ \E f1 \in FadingDraws, f2 \in FadingDraws :
         LET u == ues[loc.i]
             g == gnbs[loc.j]
             rsrp == channel_model_calculate_rsrp(channel_model, gnb[g], ue_position(ue[u]), f1)
             take == Better(rsrp, loc.best_rsrp,
                            channel_model_is_in_coverage(
                                channel_model, gnb[g], ue_position(ue[u]),
                                coverage_threshold, f2))
             best_rsrp == IF take THEN rsrp ELSE loc.best_rsrp
             best_gnb == IF take THEN g ELSE loc.best_gnb
             c == connect_to_gnb(ue, gnb, u, best_gnb)
         IN  IF loc.j < Len(gnbs)
             THEN /\ loc' = [loc EXCEPT !.j = @ + 1, !.best_rsrp = best_rsrp,
                                        !.best_gnb = best_gnb]
                  /\ UNCHANGED <<ue, gnb, event_log, pc>>
             ELSE /\ IF best_gnb # None
                     THEN /\ ue' = c.ue
                          /\ gnb' = c.gnb
                          /\ event_log' = log_event(event_log,
                                Event("reconnected", u, None, best_gnb, best_rsrp,
                                      NegInf))
                     ELSE UNCHANGED <<ue, gnb, event_log>>
                  /\ NextUe(loc.i, "uc_current", "events")
    /\ UNCHANGED <<outside, config, is_running, simulation_time, gnbs, ues, rsrp_log, sink>>

\* lines 435-446 with the channel model of the run
UcReconnect == UcReconnectUsing(channel_model)

-----------------------------------------------------------------------------
(* generate_random_events, the end of the tick, and stopping *)

\* per UE: hit, the random.random() < prob test of its branch passed;
\* popen_ok, for the Popen of a start
EventDraws ==
    [hit : IF "events" \in config.free THEN BOOLEAN ELSE {FALSE},
     popen_ok : PopenDraws]

\* a turn in generate_random_events that also parks the UE it stops
random_event_parks(o, d) ==
    IF ~o.is_running /\ d.hit THEN start(o, d.popen_ok)
    ELSE IF o.is_running /\ d.hit THEN [stop(o) EXCEPT !.is_moving = FALSE]
    ELSE o

\* the UE object after its turn in generate_random_events
random_event(o, d) ==
    IF ~o.is_running /\ d.hit THEN start(o, d.popen_ok)
    ELSE IF o.is_running /\ d.hit THEN stop(o)
    ELSE o

\* the events the loop appends for the UEs k..Len(ues), in order
RECURSIVE random_event_log(_, _, _)
random_event_log(k, log, d) ==
    IF k > Len(ues) THEN log
    ELSE LET u == ues[k]
             log1 == IF ~ue[u].is_running /\ d[u].hit
                     THEN log_event(log, Event("Random Event: UE started", u, None,
                                               None, NegInf, NegInf))
                     ELSE IF ue[u].is_running /\ d[u].hit
                     THEN log_event(log, Event("Random Event: UE stopped", u, None,
                                               None, NegInf, NegInf))
                     ELSE log
         IN  random_event_log(k + 1, log1, d)

\* generate_random_events (lines 448-460)
GenerateRandomEvents ==
    /\ pc = "events"
    /\ \E d \in [DOMAIN ue -> EventDraws] :
         /\ ue' = [u \in DOMAIN ue |-> random_event(ue[u], d[u])]
         /\ event_log' = random_event_log(1, event_log, d)
    /\ pc' = "advance"
    /\ UNCHANGED <<outside, config, is_running, simulation_time, gnbs, ues, gnb, rsrp_log,
                   sink, loc>>

\* "int(self.simulation_time) % 10 == 0", the time in tenths of a second
save_due(t) == int_seconds(t, config.time_step) % 10 = 0

\* lines 496-500: advance the time, save every ten seconds; an exception of
\* save_data is not a KeyboardInterrupt: it leaves the loop through the
\* finally clause and goes on to the caller
Advance ==
    /\ pc = "advance"
    /\ simulation_time' = simulation_time + config.time_step
    /\ \E failed \in SaveDraws :
         IF save_due(simulation_time') /\ failed # 0
         THEN /\ sink' = save_data_raising(sink, save_data(ue, event_log, rsrp_log),
                                           failed)
              /\ pc' = "finally_raising"
         ELSE /\ sink' = IF save_due(simulation_time')
                         THEN save_data(ue, event_log, rsrp_log)
                         ELSE sink
              /\ pc' = "loop"
    /\ UNCHANGED <<outside, config, is_running, gnbs, ues, gnb, ue, event_log, rsrp_log, loc>>

\* stop_simulation without the test of is_running at its head
stop_simulation_unguarded(failed) ==
    LET log1 == log_event(event_log, Note("Stopping simulation..."))
        stopped == [u \in DOMAIN ue |-> stop(ue[u])]
    IN  /\ is_running' = FALSE
        /\ ue' = stopped
        /\ IF failed = 0
           THEN /\ sink' = save_data(stopped, log1, rsrp_log)
                /\ event_log' = log_event(log1, Note("Simulation stopped"))
           ELSE /\ sink' = save_data_raising(sink,
                                save_data(stopped, log1, rsrp_log), failed)
                /\ event_log' = log1

\* stop_simulation (lines 515-530), whole; failed: the outcome of its
\* save_data, which ends the call when it raises
stop_simulation(failed) ==
    IF ~is_running
    THEN UNCHANGED <<is_running, event_log, ue, sink>>
    ELSE LET log1 == log_event(event_log, Note("Stopping simulation..."))
             stopped == [u \in DOMAIN ue |-> stop(ue[u])]
         IN  /\ is_running' = FALSE
             /\ ue' = stopped
             /\ IF failed = 0
                THEN /\ sink' = save_data(stopped, log1, rsrp_log)
                     /\ event_log' = log_event(log1, Note("Simulation stopped"))
                ELSE /\ sink' = save_data_raising(sink,
                                     save_data(stopped, log1, rsrp_log), failed)
                     /\ event_log' = log1

\* positions inside the try block of start_simulation
TryBlock == {"loop", "move", "uc_current", "uc_measure", "uc_decide",
             "uc_reconnect", "events", "advance"}

\* KeyboardInterrupt raised in the try block, and its handler (lines 509-510)
KeyboardInterrupt ==
    /\ pc \in TryBlock
    /\ event_log' = log_event(event_log, Note("Simulation interrupted by user"))
    /\ pc' = "finally"
    /\ loc' = NoLoc
    /\ UNCHANGED <<outside, config, is_running, simulation_time, gnbs, ues, gnb, ue,
                   rsrp_log, sink>>

\* the finally clause (lines 512-513); start_simulation returns, or raises
\* the exception that brought it here or the one stop_simulation raised
Finally ==
    /\ pc \in {"finally", "finally_raising"}
    /\ \E failed \in SaveDraws :
         /\ stop_simulation(failed)
         /\ pc' = IF pc = "finally" /\ (failed = 0 \/ ~is_running)
                  THEN "returned" ELSE "raised"
    /\ loc' = NoLoc
    /\ UNCHANGED <<outside, config, simulation_time, gnbs, ues, gnb, rsrp_log>>

\* stop_simulation called from outside the thread of start_simulation while
\* that thread is between two of its steps
ExternalStop ==
    /\ pc \in TryBlock \cup {"initial_attach", "start_ues"}
    /\ is_running
    /\ \E failed \in SaveDraws : stop_simulation(failed)
    /\ UNCHANGED <<outside, config, simulation_time, gnbs, ues, gnb, rsrp_log, pc, loc>>

\* what a call of start_simulation does when is_running is already True:
\* lines 464-465 return before the time is reset, the network built or
\* anything logged
start_simulation_again ==
    UNCHANGED <<is_running, simulation_time, gnbs, ues, gnb, ue, event_log,
                rsrp_log, sink>>

\* start_simulation called from outside the thread of start_simulation while
\* the simulation runs; a call made after a stop would begin a second run
ExternalStart ==
    /\ pc \in TryBlock \cup {"initial_attach", "start_ues"}
    /\ is_running
    /\ start_simulation_again
    /\ outside' = "start_simulation"
    /\ UNCHANGED <<config, pc, loc>>

\* stop_simulation called from outside that thread on a simulation that is
\* not running: before the run, after an outside stop, or after the run
ExternalStopAgain ==
    /\ ~is_running
    /\ \E failed \in SaveDraws : stop_simulation(failed)
    /\ outside' = "stop_simulation"
    /\ UNCHANGED <<config, simulation_time, gnbs, ues, gnb, rsrp_log, pc, loc>>

-----------------------------------------------------------------------------
(* Specifications *)

\* the steps of the thread running start_simulation
MainThread ==
    \/ StartSimulation
    \/ InitialAttach
    \/ StartUes
    \/ LoopTest
    \/ Move
    \/ UcCurrent
    \/ UcMeasure
    \/ UcDecide
    \/ UcReconnect
    \/ GenerateRandomEvents
    \/ Advance
    \/ Finally

Next ==
    \/ MainThread
    \/ KeyboardInterrupt
    \/ ExternalStop

\* a run of start_simulation, with interrupts and outside stops
Spec == Init /\ [][Next]_vars

\* a run of start_simulation with interrupts, outside stops, and outside
\* calls that meet the guards of start_simulation and stop_simulation
NextReentrant ==
    \/ MainThread
    \/ KeyboardInterrupt
    \/ ExternalStop
    \/ ExternalStart
    \/ ExternalStopAgain

SpecReentrant == Init /\ [][NextReentrant]_vars

\* the same run with every start of a UE process free to fail
InitEvents ==
    /\ config \in {[LifecycleConfig EXCEPT !.free = {"events", "popen"}]}
    /\ Constructed

SpecEvents == InitEvents /\ [][Next]_vars

\* that run with interrupts and no stop from outside
SpecEventsAlone == InitEvents /\ [][MainThread \/ KeyboardInterrupt]_vars

\* a run of start_simulation left alone, every fading draw open: MaxPasses
\* ticks around the measurement threshold, or one tick at the edge of coverage
InitPolicy ==
    /\ config \in {PolicyConfig(NearStations, MaxPasses * 10),
                   PolicyConfig(EdgeStations, 10)}
    /\ Constructed

SpecPolicy == InitPolicy /\ [][MainThread]_vars

\* a run of start_simulation left alone, no random source open
InitAlone ==
    /\ config \in {[LifecycleConfig EXCEPT !.free = {}], CadenceConfig, DriftConfig}
    /\ Constructed

SpecAlone == InitAlone /\ [][MainThread]_vars

\* the two stations and two UEs of LifecycleConfig, run for nine seconds
\* more, so that the save at 10 s is followed by ticks; the file system
\* under save_data may fail
PersistConfig ==
    [LifecycleConfig EXCEPT !.duration = (MaxTicks + 9) * 10, !.free = {"save"}]

\* a topology with two misconfigured stations added, one of frequency zero
\* at the head of the list and one of negative frequency at its end, both
\* at the origin with ten times the power of the others
WithDeadStations(c) ==
    [c EXCEPT !.gnbs = << GnbConf(0, 0, 0, 50) >> \o @ \o << GnbConf(0, 0, -3350, 50) >>]

\* runs of start_simulation left alone in such topologies: the trajectory UE
\* among the three equal stations, without fading, and the static UE around
\* the measurement threshold and at the edge of coverage with fading open
InitNumeric ==
    /\ config \in {WithDeadStations([TieConfig EXCEPT !.free = {}]),
                    WithDeadStations(PolicyConfig(NearStations, MaxPasses * 10)),
                    WithDeadStations(PolicyConfig(EdgeStations, 10))}
    /\ Constructed

SpecNumeric == InitNumeric /\ [][MainThread]_vars

\* --channel-model external: main hands the simulator a placeholder without
\* external source (line 612)
WithExternalModel(c) ==
    [gnbs |-> c.gnbs, ues |-> c.ues, simulation_area |-> c.simulation_area,
     time_step |-> c.time_step, duration |-> c.duration, free |-> c.free,
     channel_model |-> ExternalChannelModelPlaceholder(None)]

\* runs of start_simulation left alone with that channel model: the
\* trajectory UE among the three equal stations, without fading, and the
\* static UE around the measurement threshold and at the edge of coverage
\* with fading open
InitExternal ==
    /\ config \in {WithExternalModel([TieConfig EXCEPT !.free = {}]),
                    WithExternalModel(PolicyConfig(NearStations, MaxPasses * 10)),
                    WithExternalModel(PolicyConfig(EdgeStations, 10))}
    /\ Constructed

SpecExternal == InitExternal /\ [][MainThread]_vars

\* a run of start_simulation left alone on a file system that may fail
InitPersist ==
    /\ config = PersistConfig
    /\ Constructed

SpecPersist == InitPersist /\ [][MainThread]_vars

\* runs of start_simulation left alone, one tick longer, in which a UE may
\* pause where it is and stay there: the trajectory UE among the three equal
\* stations, and the random walker between the two stations with its
\* follower; no fading, so that a station's RSRP at a place is the same in
\* every tick
InitSettled ==
    /\ config \in {[TieConfig EXCEPT !.duration = (MaxTicks + 1) * 10,
                                      !.free = {"pause"}],
                    [LifecycleConfig EXCEPT !.duration = (MaxTicks + 1) * 10,
                                            !.free = {"pause"}]}
    /\ Constructed

SpecSettled == InitSettled /\ [][MainThread]_vars

\* a station at the origin and one far off; a trajectory UE that starts out
\* of reach of both (-114 and -112), walks to where the first is at -110,
\* inside coverage and below the measurement threshold, and on to where it
\* is at -104, above the threshold; fading open
RecoverConfig ==
    [gnbs |-> << GnbConf(0, 0, 3350, 5), GnbConf(11, 0, 3350, 5) >>,
     ues |-> << UeConf(6, 0, "trajectory", 2, 0,
                       << Position(4, 0), Position(2, 0) >>, None, 0, 0) >>,
     simulation_area |-> <<11, 10>>,
     time_step |-> 10,
     duration |-> MaxTicks * 10,
     free |-> {"fading"}]

\* runs of start_simulation left alone in which a UE is without station
\* when update_connections comes to it: the walk into coverage, and the
\* static UE at the edge of coverage
InitRecover ==
    /\ config \in {RecoverConfig, PolicyConfig(EdgeStations, 10)}
    /\ Constructed

SpecRecover == InitRecover /\ [][MainThread]_vars

-----------------------------------------------------------------------------
(* UE.move on its own *)

\* UEs of every mobility type, pause and heading draws open: a random walker;
\* a directed UE with a group follower; a random walker whose stride is
\* longer than the area; a directed UE on the left edge heading down the
\* edge, next to one with a negative stride longer than the area; a
\* trajectory UE slower than its legs and one as fast as its longest leg;
\* and a trajectory UE without waypoints next to a group UE
\* without leader and a static UE
MoveConfig(ue_confs) ==
    [gnbs |-> <<>>,
     ues |-> ue_confs,
     simulation_area |-> <<4, 4>>,
     time_step |-> 10,
     duration |-> MaxMoves * 10,
     free |-> {"pause", "heading"}]

MoveConfigs ==
    {MoveConfig(<< UeConf(1, 1, "random_walk", 2, 0, <<>>, None, 0, 0) >>),
     MoveConfig(<< UeConf(3, 1, "directed", 2, 0, <<>>, None, 0, 0),
                   UeConf(0, 0, "group", 1, 0, <<>>, 1, -1, 1) >>),
     MoveConfig(<< UeConf(1, 1, "random_walk", 6, 2, <<>>, None, 0, 0) >>),
     MoveConfig(<< UeConf(0, 2, "directed", 2, 3, <<>>, None, 0, 0),
                   UeConf(1, 0, "directed", 9, 2, <<>>, None, 0, 0) >>),
     MoveConfig(<< UeConf(0, 0, "trajectory", 2, 0,
                          << Position(3, 0), Position(3, 1) >>, None, 0, 0),
                   UeConf(0, 0, "trajectory", 3, 0,
                          << Position(3, 0), Position(3, 1) >>, None, 0, 0) >>),
     MoveConfig(<< UeConf(2, 2, "trajectory", 2, 0, <<>>, None, 0, 0),
                   UeConf(1, 3, "group", 2, 0, <<>>, None, 0, 0),
                   UeConf(4, 0, "static", 0, 0, <<>>, None, 0, 0) >>)}

\* the UE objects as setup_network creates them; loc.i is the UE of the last
\* call of move, loc.j the number of calls so far
InitMove ==
    /\ config \in MoveConfigs
    /\ is_running = FALSE
    /\ simulation_time = 0
    /\ gnbs = <<>>
    /\ ues = [u \in 1..Len(config.ues) |-> u]
    /\ gnb = <<>>
    /\ ue = CreatedUes
    /\ event_log = <<>>
    /\ rsrp_log = <<>>
    /\ sink = NoSink
    /\ pc = "move"
    /\ loc = NoLoc
    /\ outside = "none"

\* one call of ue.move(time_step, boundary) for some UE
MoveCall ==
    /\ loc.j < MaxMoves
    /\ \E k \in 1..Len(ues), d \in MoveDraws :
         /\ ue' = [ue EXCEPT ![ues[k]] =
                      move(ue, ues[k], config.time_step, config.simulation_area, d)]
         /\ loc' = [loc EXCEPT !.i = k, !.j = @ + 1]
    /\ UNCHANGED <<outside, config, is_running, simulation_time, gnbs, ues, gnb,
                   event_log, rsrp_log, sink, pc>>

SpecMove == InitMove /\ [][MoveCall]_vars

\* group UEs with a leader, pause draws and the rounding of the float sums
\* open: a follower two steps from its place beside a static leader; a
\* follower on its place beside a static leader; a follower that reaches the
\* place beside a static leader at the lower edge in one step; and a follower
\* of a directed UE that moves on, approached at an angle
GroupConfig(ue_confs) == [MoveConfig(ue_confs) EXCEPT !.free = {"pause", "rounding"}]

GroupConfigs ==
    {GroupConfig(<< UeConf(3, 2, "static", 0, 0, <<>>, None, 0, 0),
                    UeConf(0, 2, "group", 1, 0, <<>>, 1, -1, 0) >>),
     GroupConfig(<< UeConf(3, 2, "static", 0, 0, <<>>, None, 0, 0),
                    UeConf(2, 3, "group", 1, 0, <<>>, 1, -1, 1) >>),
     GroupConfig(<< UeConf(3, 0, "static", 0, 0, <<>>, None, 0, 0),
                    UeConf(1, 0, "group", 1, 0, <<>>, 1, -3, 0) >>),
     GroupConfig(<< UeConf(3, 1, "directed", 2, 0, <<>>, None, 0, 0),
                    UeConf(0, 0, "group", 3, 0, <<>>, 1, 0, 3) >>)}

InitGroup ==
    /\ config \in GroupConfigs
    /\ is_running = FALSE
    /\ simulation_time = 0
    /\ gnbs = <<>>
    /\ ues = [u \in 1..Len(config.ues) |-> u]
    /\ gnb = <<>>
    /\ ue = CreatedUes
    /\ event_log = <<>>
    /\ rsrp_log = <<>>
    /\ sink = NoSink
    /\ pc = "move"
    /\ loc = NoLoc
    /\ outside = "none"

SpecGroup == InitGroup /\ [][MoveCall]_vars

-----------------------------------------------------------------------------
(* UE.connect_to_gnb on its own *)

\* two stations and two UEs
ConnectConfig ==
    [gnbs |-> << GnbConf(0, 0, 3350, 5), GnbConf(3, 0, 3400, 5) >>,
     ues |-> << UeConf(1, 0, "static", 0, 0, <<>>, None, 0, 0),
                UeConf(2, 0, "static", 0, 0, <<>>, None, 0, 0) >>,
     simulation_area |-> <<4, 4>>,
     time_step |-> 10,
     duration |-> 10,
     free |-> {}]

\* the objects as setup_network creates them, no UE attached; loc.calls
\* holds the last four calls of connect_to_gnb
InitConnect ==
    /\ config = ConnectConfig
    /\ is_running = FALSE
    /\ simulation_time = 0
    /\ gnbs = [g \in 1..Len(config.gnbs) |-> g]
    /\ ues = [u \in 1..Len(config.ues) |-> u]
    /\ gnb = CreatedGnbs
    /\ ue = CreatedUes
    /\ event_log = <<>>
    /\ rsrp_log = <<>>
    /\ sink = NoSink
    /\ pc = "connect"
    /\ loc = [calls |-> <<>>]
    /\ outside = "none"

\* one call ue.connect_to_gnb(gnb) for some UE and some station or None
ConnectCall ==
    /\ pc = "connect"
    /\ \E u \in DOMAIN ue, g \in DOMAIN gnb \cup {None} :
         LET c == connect_to_gnb(ue, gnb, u, g)
             call == [ue_id |-> u, gnb |-> g]
         IN  /\ ue' = c.ue
             /\ gnb' = c.gnb
             /\ loc' = [calls |-> IF Len(loc.calls) < 4
                                  THEN Append(loc.calls, call)
                                  ELSE SubSeq(loc.calls, 2, 4) \o << call >>]
    /\ UNCHANGED <<outside, config, is_running, simulation_time, gnbs, ues, event_log,
                   rsrp_log, sink, pc>>

SpecConnect == InitConnect /\ [][ConnectCall]_vars

-----------------------------------------------------------------------------
(* The channel model on its own *)

\* two stations and a directed UE that passes the first one and, the area
\* being two cells wide, is back where it was every second tick; fading open
ChannelConfig(cm) ==
    [gnbs |-> << GnbConf(1, 0, 3350, 5), GnbConf(0, 3, 3400, 5) >>,
     ues |-> << UeConf(0, 0, "directed", 1, 0, <<>>, None, 0, 0) >>,
     simulation_area |-> <<2, 2>>,
     time_step |-> 10,
     duration |-> MaxTicks * 10,
     free |-> {"fading"},
     channel_model |-> cm]

\* a client of the channel model, of either class, with and without an
\* external source; loc.calls holds its last two calls and what they
\* returned; the UE is attached to the first station
InitChannel ==
    /\ config \in {ChannelConfig(SimplifiedChannelModel),
                    ChannelConfig(ExternalChannelModelPlaceholder(None)),
                    ChannelConfig(ExternalChannelModelPlaceholder(ExternalSource))}
    /\ is_running = FALSE
    /\ simulation_time = 0
    /\ gnbs = [g \in 1..Len(config.gnbs) |-> g]
    /\ ues = [u \in 1..Len(config.ues) |-> u]
    /\ gnb = connect_to_gnb(CreatedUes, CreatedGnbs, 1, 1).gnb
    /\ ue = connect_to_gnb(CreatedUes, CreatedGnbs, 1, 1).ue
    /\ event_log = <<>>
    /\ rsrp_log = <<>>
    /\ sink = NoSink
    /\ pc = "channel"
    /\ loc = [calls |-> <<>>]
    /\ outside = "none"

ChannelOperations == {"calculate_rsrp", "calculate_sinr", "is_in_coverage"}

\* a call that also enters its measurement in the measurement log
ChannelCall_logging ==
    /\ pc = "channel"
    /\ \E op \in ChannelOperations, g \in DOMAIN gnb,
          fading \in [DOMAIN gnb -> FadingDraws] :
         /\ op # "calculate_sinr" => \A h \in DOMAIN gnb : h # g => fading[h] = 0
         /\ LET pos == ue[ues[1]].position
                call == [simulation_time |-> simulation_time,
                         op |-> op, gnb |-> g, ue_position |-> pos,
                         threshold |-> coverage_threshold, interfering_gnbs |-> gnbs,
                         fading |-> fading,
                         result |->
                             CASE op = "calculate_rsrp" ->
                                      channel_model_calculate_rsrp(
                                          channel_model, gnb[g], pos, fading[g])
                               [] op = "calculate_sinr" ->
                                      channel_model_calculate_sinr(
                                          channel_model, gnb, g, pos, gnbs, fading)
                               [] OTHER -> NegInf,
                         in_coverage |->
                             /\ op = "is_in_coverage"
                             /\ channel_model_is_in_coverage(
                                    channel_model, gnb[g], pos, coverage_threshold,
                                    fading[g])]
            IN  /\ loc' = [calls |-> IF Len(loc.calls) < 2
                                     THEN Append(loc.calls, call)
                                     ELSE << loc.calls[2], call >>]
                /\ rsrp_log' = IF rsrp_log = <<>>
                               THEN log_rsrp(rsrp_log, ues[1], g, call.result)
                               ELSE rsrp_log
    /\ UNCHANGED <<outside, config, is_running, simulation_time, gnbs, ues, gnb, ue,
                   event_log, sink, pc>>

\* one call of one of the three operations of self.channel_model, for a
\* station and the place of the UE; of calculate_sinr with every station as
\* interferer; of is_in_coverage with the default threshold
ChannelCall ==
    /\ pc = "channel"
    /\ \E op \in ChannelOperations, g \in DOMAIN gnb,
          fading \in [DOMAIN gnb -> FadingDraws] :
         /\ op # "calculate_sinr" => \A h \in DOMAIN gnb : h # g => fading[h] = 0
         /\ LET pos == ue[ues[1]].position
                call == [simulation_time |-> simulation_time,
                         op |-> op, gnb |-> g, ue_position |-> pos,
                         threshold |-> coverage_threshold, interfering_gnbs |-> gnbs,
                         fading |-> fading,
                         result |->
                             CASE op = "calculate_rsrp" ->
                                      channel_model_calculate_rsrp(
                                          channel_model, gnb[g], pos, fading[g])
                               [] op = "calculate_sinr" ->
                                      channel_model_calculate_sinr(
                                          channel_model, gnb, g, pos, gnbs, fading)
                               [] OTHER -> NegInf,
                         in_coverage |->
                             /\ op = "is_in_coverage"
                             /\ channel_model_is_in_coverage(
                                    channel_model, gnb[g], pos, coverage_threshold,
                                    fading[g])]
            IN  loc' = [calls |-> IF Len(loc.calls) < 2
                                  THEN Append(loc.calls, call)
                                  ELSE << loc.calls[2], call >>]
    /\ UNCHANGED <<outside, config, is_running, simulation_time, gnbs, ues, gnb, ue,
                   event_log, rsrp_log, sink, pc>>

\* between two calls a tick passes: the UE moves on and is handed to the
\* next station of the list, and after the last one is detached
ChannelTick ==
    /\ pc = "channel"
    /\ simulation_time < config.duration
    /\ simulation_time' = simulation_time + config.time_step
    /\ \E d \in MoveDraws :
         LET u == ues[1]
             moved == [ue EXCEPT ![u] = move(ue, u, config.time_step,
                                             config.simulation_area, d)]
             c == connect_to_gnb(moved, gnb, u,
                                 IF ue[u].connected_gnb = Len(gnbs) THEN None
                                 ELSE ue[u].connected_gnb + 1)
         IN  /\ ue' = c.ue
             /\ gnb' = c.gnb
    /\ UNCHANGED <<outside, config, is_running, gnbs, ues, event_log, rsrp_log, sink, pc, loc>>

SpecChannel == InitChannel /\ [][ChannelCall \/ ChannelTick]_vars

-----------------------------------------------------------------------------
(* Properties *)

\* the UE update_connections is evaluating, its serving station, and the
\* serving RSRP computed for it in this tick
EvaluatedUe == ues[loc.i]

Serving == ue[EvaluatedUe].connected_gnb

\* the rows the tick at time t has logged for UE u
TickRows(u, t) ==
    SelectSeq(rsrp_log, LAMBDA r : r.ue_id = u /\ r.simulation_time = t)

\* the rows of the current tick for the evaluated UE and the stations other
\* than its serving one, and the best quality among them
OtherRows ==
    SelectSeq(TickRows(EvaluatedUe, simulation_time), LAMBDA r : r.gnb_id # Serving)

BestOther ==
    IF OtherRows = <<>> THEN NegInf
    ELSE CHOOSE b \in {OtherRows[k].rsrp : k \in 1..Len(OtherRows)} :
             \A k \in 1..Len(OtherRows) : OtherRows[k].rsrp <= b

\* the step appends a record with this message
Logs(message) ==
    /\ Len(event_log') > Len(event_log)
    /\ event_log'[Len(event_log) + 1].message = message

\* the step hands the evaluated UE over, and the UE ends the step attached to
\* the handover target
HandsOver ==
    /\ Logs("Handover")
    /\ event_log'[Len(event_log) + 1].ue_id = EvaluatedUe
    /\ ue'[EvaluatedUe].connected_gnb = event_log'[Len(event_log) + 1].to_gnb
    /\ ue'[EvaluatedUe].connected_gnb \notin {None, Serving}

HasEvent(message) == \E k \in 1..Len(event_log) : event_log[k].message = message

\* C1: for every UE u and gNB g, u.connected_gnb = g implies u is in
\* g.connected_ues, and u.connected_gnb = None implies u is in no gNB's
\* connected_ues; in every state from construction to the return of
\* start_simulation, stop_simulation included.
ConnectionConsistent ==
    \A u \in DOMAIN ue :
        /\ \A g \in DOMAIN gnb :
               ue[u].connected_gnb = g => u \in Range(gnb[g].connected_ues)
        /\ ue[u].connected_gnb = None =>
               \A g \in DOMAIN gnb : u \notin Range(gnb[g].connected_ues)

\* a finished run in which a UE was handed from one station to another and a
\* UE lost coverage without finding a station, and is detached
ConnectionConsistentWitness ==
    /\ pc = "returned"
    /\ \E k \in 1..Len(event_log) :
          event_log[k].message = "Handover" /\ event_log[k].from_gnb # None
    /\ HasEvent("out of coverage")
    /\ HasEvent("could not find a suitable gNB to reconnect")
    /\ \E u \in DOMAIN ue : ue[u].connected_gnb = None

\* C2: when the decision of update_connections is taken for a connected UE
\* whose serving RSRP c of this tick is at or above the measurement threshold,
\* the UE is handed over if and only if the best RSRP b logged in this tick
\* for another station satisfies b > c + 3.
HysteresisRule ==
    [][(pc = "uc_decide" /\ Serving # None
           /\ loc.current_rsrp >= handover_threshold)
       => (HandsOver <=> BestOther > loc.current_rsrp + a3_offset)]_vars

\* a handover from a serving station at or above the threshold to a station
\* more than the offset better
HysteresisWitness ==
    \E k \in 1..Len(event_log) :
        /\ event_log[k].message = "Handover"
        /\ event_log[k].rsrp >= handover_threshold
        /\ event_log[k].to_rsrp > event_log[k].rsrp + a3_offset

\* C3: when the decision is taken for a connected UE whose serving RSRP of
\* this tick is below the measurement threshold while the best RSRP logged
\* for another station is above it, the UE is handed over to a station with
\* that best RSRP, whether or not it beats the serving RSRP by the offset.
RecoveryRule ==
    [][(pc = "uc_decide" /\ Serving # None
           /\ loc.current_rsrp < handover_threshold
           /\ BestOther > handover_threshold)
       => /\ HandsOver
          /\ \E k \in 1..Len(OtherRows) :
                /\ OtherRows[k].gnb_id = ue'[EvaluatedUe].connected_gnb
                /\ OtherRows[k].rsrp = BestOther
          /\ event_log'[Len(event_log) + 1].to_rsrp = BestOther]_vars

\* a recovery handover whose target does not beat the server by the offset
RecoveryWitness ==
    \E k \in 1..Len(event_log) :
        /\ event_log[k].message = "Handover"
        /\ event_log[k].rsrp < handover_threshold
        /\ event_log[k].to_rsrp > handover_threshold
        /\ event_log[k].to_rsrp <= event_log[k].rsrp + a3_offset

\* C4: when the decision is taken for a UE whose serving RSRP of this tick
\* is below the coverage threshold, the UE is not attached to that station
\* when update_connections has finished with it.
CoverageLossDetaches ==
    [][(pc = "uc_decide" /\ Serving # None
           /\ loc.current_rsrp < coverage_threshold
           /\ pc' # "uc_reconnect")
       => ue'[EvaluatedUe].connected_gnb # Serving]_vars

\* C5: every call of move appends exactly one sample to the trajectory of
\* the UE it is called on.
MoveAppendsOneSample ==
    [][Len(ue'[ues[loc'.i]].trajectory) = Len(ue[ues[loc'.i]].trajectory) + 1]_vars

\* C6: when start_simulation has returned, is_running is False and the last
\* save_data ran after the last mutation of the last tick: the sink holds
\* the measurement log and the trajectories as they are in memory.
FinalSaveAfterLastMutation ==
    pc = "returned" =>
        /\ ~is_running
        /\ sink.rsrp_log = rsrp_log
        /\ sink.trajectories = [u \in DOMAIN ue |-> ue[u].trajectory]

\* C7: when start_simulation has returned, and stop_simulation with it, the
\* event log last handed to the sink is the whole in-memory event log.
ShutdownLogComplete == pc = "returned" => sink.event_log = event_log

\* the number of ticks completed
Tick == simulation_time \div config.time_step

InUpdateConnections == pc \in {"uc_current", "uc_measure", "uc_decide", "uc_reconnect"}

RandomEventLogged ==
    \E k \in 1..Len(event_log) :
        /\ event_log[k].simulation_time = simulation_time
        /\ event_log[k].message \in {"Random Event: UE started",
                                     "Random Event: UE stopped"}

\* C8: within a tick, update_connections evaluates no UE before every UE has
\* moved, generate_random_events runs after every UE is evaluated, the time
\* advances after all three; and every RSRP a tick measures for a UE is the
\* RSRP at the position the UE reached by that tick's move.
TickOrder ==
    /\ pc = "move" =>
          \A k \in 1..Len(ues) :
              /\ Len(ue[ues[k]].trajectory) = Tick + (IF k < loc.i THEN 2 ELSE 1)
              /\ TickRows(ues[k], simulation_time) = <<>>
    /\ InUpdateConnections =>
          \A k \in 1..Len(ues) :
              /\ Len(ue[ues[k]].trajectory) = Tick + 2
              /\ k < loc.i => Len(TickRows(ues[k], simulation_time)) = Len(gnbs)
              /\ k > loc.i => TickRows(ues[k], simulation_time) = <<>>
    /\ pc \in {"events", "advance"} =>
          \A k \in 1..Len(ues) :
              /\ Len(ue[ues[k]].trajectory) = Tick + 2
              /\ Len(TickRows(ues[k], simulation_time)) = Len(gnbs)
    /\ pc = "move" \/ InUpdateConnections \/ pc = "events" => ~RandomEventLogged
    /\ pc = "loop" =>
          \A k \in 1..Len(ues) :
              /\ Len(ue[ues[k]].trajectory) = Tick + 1
              /\ \A t \in 0..(Tick - 1) :
                    Len(TickRows(ues[k], t * config.time_step)) = Len(gnbs)
    /\ \A k \in 1..Len(rsrp_log) :
          LET r == rsrp_log[k]
          IN  r.rsrp = calculate_rsrp(gnb[r.gnb_id],
                           ue[r.ue_id].trajectory[r.simulation_time \div config.time_step + 2],
                           0)

\* the end of a tick of two UEs in which a UE was handed over and a random
\* event fired, every UE (a group follower among them) away from where it
\* started
TickOrderWitness ==
    /\ pc = "advance"
    /\ RandomEventLogged
    /\ \E k \in 1..Len(event_log) :
          /\ event_log[k].simulation_time = simulation_time
          /\ event_log[k].message = "Handover"
    /\ \E u \in DOMAIN ue : ue[u].mobility_type = "group"
    /\ \A u \in DOMAIN ue : ue[u].position # ue[u].trajectory[1]

\* RSRP of station g at the place of the evaluated UE, without fading
Quality(g) == calculate_rsrp(gnb[g], ue[EvaluatedUe].position, 0)

\* the station of S that comes first in gnbs among those of maximum quality
FirstBest(S) ==
    CHOOSE g \in S :
        \A h \in S : \/ Quality(h) < Quality(g)
                      \/ /\ Quality(h) = Quality(g)
                         /\ IndexOf(gnbs, g) <= IndexOf(gnbs, h)

InCoverage == {g \in Range(gnbs) : Quality(g) >= coverage_threshold}

Candidates ==
    {g \in Range(gnbs) : g # Serving /\ Quality(g) > handover_threshold}

\* the step ends a selection loop of setup_network or of the reattach
EndsSelection ==
    \/ Logs("initially connected")
    \/ Logs("could not find initial serving gNB")
    \/ Logs("reconnected")
    \/ Logs("could not find a suitable gNB to reconnect")

TieRecord(k, message, g, p) ==
    /\ event_log[k].message = message
    /\ event_log[k].ue_id = 1
    /\ event_log[k].to_gnb = g
    /\ \E h \in DOMAIN gnb :
          /\ h > g
          /\ calculate_rsrp(gnb[h], p, 0) = calculate_rsrp(gnb[g], p, 0)

InitialAttachInCoverage ==
    pc \notin {"idle", "initial_attach"} =>
        \A u \in DOMAIN ue :
            LET initial == SelectSeq(event_log,
                               LAMBDA e : /\ e.ue_id = u
                                          /\ e.message \in {"initially connected",
                                                 "could not find initial serving gNB"})
            IN  /\ Len(initial) = 1
                /\ initial[1].message = "initially connected"
                       => initial[1].rsrp >= coverage_threshold

\* the UE of the last call of move, and the area it moves in
MovedUe == ues[loc'.i]

InArea(p, x_max, y_max) == 0 <= p.x /\ p.x <= x_max /\ 0 <= p.y /\ p.y <= y_max

\* C11: a random_walk UE that starts inside the area is, after every move,
\* at 0 <= x <= area_x and 0 <= y <= area_y.
RandomWalkStaysInArea ==
    \A u \in DOMAIN ue :
        ue[u].mobility_type = "random_walk" =>
            InArea(ue[u].position, config.simulation_area[1],
                   config.simulation_area[2])

\* C12: after every call of move that leaves a directed UE moving, its
\* position is at 0 <= x < area_x and 0 <= y < area_y.
DirectedWrapsIntoArea ==
    [][(ue'[MovedUe].mobility_type = "directed" /\ ue'[MovedUe].is_moving)
       => /\ InArea(ue'[MovedUe].position, config.simulation_area[1] - 1,
                    config.simulation_area[2] - 1)]_vars

\* the square of the distance between two places
SquaredDistance(p, q) == (p.x - q.x) * (p.x - q.x) + (p.y - q.y) * (p.y - q.y)

\* speed * time_step of UE object o is at least the length of every leg of
\* its route: from its first place to the first waypoint, and from every
\* waypoint to the next one, the first after the last
CoversEveryLeg(o) ==
    LET d == StepLength(o, config.time_step)
        n == Len(o.waypoints)
    IN  /\ d * d >= SquaredDistance(o.trajectory[1], o.waypoints[1])
        /\ \A k \in 1..n :
              d * d >= SquaredDistance(o.waypoints[k], o.waypoints[(k % n) + 1])

PauseStateMachine ==
    [][LET o == ue[MovedUe]
           n == ue'[MovedUe]
       IN  /\ ~n.is_moving => n.position = o.position
           /\ \A d \in MoveDraws :
                 n = move(ue, MovedUe, config.time_step, config.simulation_area, d)
                 => /\ ~o.is_moving /\ n.is_moving => d.resume /\ ~d.stop
                    /\ o.is_moving /\ ~n.is_moving => d.stop
                    /\ ~o.is_moving /\ ~n.is_moving => ~d.resume \/ d.stop
                    /\ o.is_moving /\ n.is_moving => ~d.stop
           /\ \A u \in DOMAIN ue :
                 u # MovedUe => ue'[u].is_moving = ue[u].is_moving]_vars

\* a UE that paused in its first call, stayed paused in the second, and
\* resumed and moved in the third
PauseWitness ==
    \E u \in DOMAIN ue :
        /\ Len(ue[u].trajectory) = 4
        /\ ue[u].trajectory[2] = ue[u].trajectory[1]
        /\ ue[u].trajectory[3] = ue[u].trajectory[1]
        /\ ue[u].trajectory[4] # ue[u].trajectory[1]
        /\ ue[u].is_moving

\* C15: the tick loop calls save_data at the end of a tick exactly when the
\* time the tick has reached is a multiple of 10 s (100 tenths of a second).
SaveCadenceTenSeconds ==
    [][pc = "advance" /\ pc' = "loop"
       => (sink' = save_data(ue', event_log', rsrp_log')
              <=> simulation_time' % 100 = 0)]_vars

HandoverTargetIsBestCandidate ==
    [][pc = "uc_decide" /\ Logs("Handover")
       => LET e == event_log'[Len(event_log) + 1]
          IN  /\ e.to_gnb \notin {None, Serving}
              /\ e.to_rsrp > handover_threshold
              /\ e.to_rsrp = BestOther
              /\ \E k \in 1..Len(OtherRows) :
                    /\ OtherRows[k].gnb_id = e.to_gnb
                    /\ OtherRows[k].rsrp = e.to_rsrp]_vars

\* a handover that had two candidates above the threshold, the one not
\* taken below the one taken
HandoverTargetWitness ==
    \E k \in 1..Len(event_log), l \in 1..Len(rsrp_log) :
        /\ event_log[k].message = "Handover"
        /\ event_log[k].from_gnb # None
        /\ rsrp_log[l].simulation_time = event_log[k].simulation_time
        /\ rsrp_log[l].ue_id = event_log[k].ue_id
        /\ rsrp_log[l].gnb_id \notin {event_log[k].from_gnb, event_log[k].to_gnb}
        /\ rsrp_log[l].rsrp > handover_threshold
        /\ rsrp_log[l].rsrp < event_log[k].to_rsrp

\* C18: a handover of UE u from station a to station b takes u out of
\* a.connected_ues, puts it once into b.connected_ues, sets u.connected_gnb
\* to b and appends the Handover record and no other; every other UE and
\* every other station is as before.
HandoverEffect ==
    [][pc = "uc_decide" /\ Logs("Handover")
       => LET u == EvaluatedUe
              a == Serving
              b == event_log'[Len(event_log) + 1].to_gnb
          IN  /\ a # None => u \notin Range(gnb'[a].connected_ues)
              /\ Len(SelectSeq(gnb'[b].connected_ues, LAMBDA v : v = u)) = 1
              /\ ue'[u].connected_gnb = b
              /\ ue'[u] = [ue[u] EXCEPT !.connected_gnb = b]
              /\ Len(event_log') = Len(event_log) + 1
              /\ \A v \in DOMAIN ue : v # u => ue'[v] = ue[v]
              /\ \A g \in DOMAIN gnb : g \notin {a, b} => gnb'[g] = gnb[g]
              /\ a # None =>
                    gnb'[a].connected_ues = RemoveFirst(gnb[a].connected_ues, u)
              /\ gnb'[b].connected_ues = Append(gnb[b].connected_ues, u)]_vars

\* right after a handover between two of three stations
HandoverEffectWitness ==
    /\ Len(gnbs) = 3
    /\ Len(event_log) > 0
    /\ LET e == event_log[Len(event_log)]
       IN  /\ e.message = "Handover"
           /\ e.from_gnb # None
           /\ ue[e.ue_id].connected_gnb = e.to_gnb
           /\ e.ue_id \in Range(gnb[e.to_gnb].connected_ues)

\* the records stop_simulation and the KeyboardInterrupt handler append
StopNotes == {"Stopping simulation...", "Simulation stopped",
              "Simulation interrupted by user"}

ReattachResults == {"reconnected", "could not find a suitable gNB to reconnect"}

\* in log, every 'out of coverage' record is directly followed by a reattach
\* result for the same UE, the last record excepted, which is one while the
\* reattach is running, or for good if cut; every reattach result follows
\* such a record; and while a reattach result is the last record, its UE is
\* attached exactly if it says 'reconnected'
CoverageLossOrder(log, cut) ==
    /\ \A k \in 1..Len(log) :
          log[k].message = "out of coverage"
          => IF k < Len(log)
             THEN /\ log[k + 1].message \in ReattachResults
                  /\ log[k + 1].ue_id = log[k].ue_id
             ELSE pc = "uc_reconnect" \/ cut
    /\ \A k \in 1..Len(log) :
          log[k].message \in ReattachResults
          => /\ k > 1
             /\ log[k - 1].message = "out of coverage"
             /\ log[k - 1].ue_id = log[k].ue_id
    /\ Len(log) > 0 /\ log[Len(log)].message \in ReattachResults
          => (ue[log[Len(log)].ue_id].connected_gnb # None
                 <=> log[Len(log)].message = "reconnected")

TicksToRun ==
    CHOOSE n \in 0..config.duration :
        /\ n * config.time_step >= config.duration
        /\ \A m \in 0..(n - 1) : m * config.time_step < config.duration

\* C20: left alone, start_simulation returns after the least number n of
\* ticks with n * time_step >= duration, with simulation_time equal to
\* n * time_step, stopped, and with a final save of the logs and traces.
SelfStopAfterDuration ==
    pc = "returned" =>
        /\ simulation_time = TicksToRun * config.time_step
        /\ \A u \in DOMAIN ue : Len(ue[u].trajectory) = TicksToRun + 1
        /\ ~is_running
        /\ sink.rsrp_log = rsrp_log
        /\ sink.trajectories = [u \in DOMAIN ue |-> ue[u].trajectory]

\* C21: a tick begins only from the while test and only while is_running is
\* True; once stop_simulation has set is_running to False it stays False and
\* no tick begins: the tick in progress runs to its end and no move,
\* update_connections or generate_random_events follows it.
StopObservedBetweenTicks ==
    [][/\ (pc # "move" /\ pc' = "move")
             => (pc = "loop" /\ is_running /\ ~HasEvent("Stopping simulation..."))
       /\ HasEvent("Stopping simulation...") => ~is_running'
       /\ (HasEvent("Stopping simulation...") /\ pc = "loop") => pc' \in {"loop", "finally"}]_vars

\* a run stopped from outside in the middle of its first tick: the tick was
\* completed, the second one never began, and start_simulation returned
StopObservedWitness ==
    /\ pc = "returned"
    /\ ~HasEvent("Simulation interrupted by user")
    /\ simulation_time = config.time_step
    /\ simulation_time < config.duration
    /\ \A u \in DOMAIN ue : Len(ue[u].trajectory) = 2
    /\ \E k \in 1..Len(rsrp_log), l \in 1..Len(event_log) :
          /\ event_log[l].message = "Stopping simulation..."
          /\ event_log[l].simulation_time = 0
          /\ Len(sink.rsrp_log) < k

\* UE object o with its srsue process running
Running(o) == [o EXCEPT !.is_running = TRUE, !.process = "popen"]

\* C22: generate_random_events changes of a UE nothing but is_running and
\* its process handle, and changes no station; the move of a UE is what it
\* would be if the UE were running, and when generate_random_events is
\* reached every UE, running or not, has this tick's sample in its trace and
\* this tick's row for every station in the measurement log.
JoinLeaveOrthogonal ==
    [][/\ (pc = "events" /\ pc' = "advance")
             => /\ gnb' = gnb
                /\ \A u \in DOMAIN ue :
                      ue'[u] = [ue[u] EXCEPT !.is_running = ue'[u].is_running,
                                             !.process = ue'[u].process]
                /\ \A u \in DOMAIN ue :
                      /\ Len(ue[u].trajectory) = Tick + 2
                      /\ Len(TickRows(u, simulation_time)) = Len(gnbs)
       /\ (pc = "move" /\ pc' \in {"move", "uc_current"} /\ loc' # loc)
             => \E d \in MoveDraws :
                   Running(ue'[EvaluatedUe]) =
                       Running(move([ue EXCEPT ![EvaluatedUe] = Running(@)],
                                    EvaluatedUe, config.time_step,
                                    config.simulation_area, d))]_vars

\* the second tick of a run left alone, before its random events: a UE that
\* a random event stopped in the first tick has moved on in this tick and
\* has been measured against every station
JoinLeaveWitness ==
    /\ pc = "events"
    /\ simulation_time = config.time_step
    /\ ~HasEvent("Stopping simulation...")
    /\ \E u \in DOMAIN ue :
          /\ ~ue[u].is_running
          /\ \E k \in 1..Len(event_log) :
                /\ event_log[k].message = "Random Event: UE stopped"
                /\ event_log[k].ue_id = u
                /\ event_log[k].simulation_time = 0
          /\ Len(ue[u].trajectory) = 3
          /\ ue[u].trajectory[3] # ue[u].trajectory[2]
          /\ ue[u].connected_gnb # None
          /\ Len(TickRows(u, simulation_time)) = Len(gnbs)

\* start_simulation is over: it is in its finally clause or past it
Over == pc \in {"finally", "finally_raising", "returned", "raised"}

\* C23: in a run in which no stop is requested, whatever save_data does in
\* the periodic persist, the tick loop is left only when simulation_time
\* has reached the duration.
PersistFailureKeepsLoop == Over => simulation_time >= config.duration

\* places and thresholds (dBm) to evaluate the channel model at
Places == {Position(x, y) : x \in 0..4, y \in 0..4}

Thresholds == {coverage_threshold, handover_threshold, -200, -50, 0}

\* C24: for a station whose frequency is zero or negative, calculate_rsrp
\* returns negative infinity and is_in_coverage is False at every place, for
\* every finite threshold and fading draw; and no UE is ever attached to such a
\* station by initial attach, handover or reattach.
NonPositiveFrequencyNeverSelected ==
    \A g \in DOMAIN gnb :
        gnb[g].frequency <= 0 =>
            /\ \A p \in Places, f \in FadingLevels :
                  /\ calculate_rsrp(gnb[g], p, f) = NegInf
                  /\ \A t \in Thresholds : ~is_in_coverage(gnb[g], p, t, f)
            /\ gnb[g].connected_ues = <<>>
            /\ \A u \in DOMAIN ue : ue[u].connected_gnb # g
            /\ \A k \in 1..Len(event_log) : event_log[k].to_gnb # g
            /\ \A k \in 1..Len(rsrp_log) :
                  rsrp_log[k].gnb_id = g => rsrp_log[k].rsrp = NegInf

\* a finished run among five stations, the first of frequency zero and the
\* last of negative frequency, both stronger than every other, in which a UE
\* was attached, handed over, and reattached after a coverage loss
NonPositiveFrequencyWitness ==
    /\ pc = "returned"
    /\ Len(gnbs) = 5
    /\ gnb[1].frequency = 0
    /\ gnb[5].frequency < 0
    /\ \A g \in 2..4 : gnb[g].frequency > 0 /\ gnb[g].power < gnb[1].power
    /\ HasEvent("initially connected")
    /\ HasEvent("Handover")
    /\ HasEvent("reconnected")
    /\ \E k \in 1..Len(rsrp_log) : rsrp_log[k].gnb_id = 1

\* C25: a call of one of the three operations of an
\* ExternalChannelModelPlaceholder that was given an external source returns
\* what the external source answers.
ExternalSourceRouted ==
    \A k \in 1..Len(loc.calls) :
        (channel_model.class = "ExternalChannelModelPlaceholder"
            /\ channel_model.api # None)
        => LET call == loc.calls[k]
           IN  CASE call.op = "calculate_rsrp" -> call.result = ExternalAnswers.rsrp
                 [] call.op = "calculate_sinr" -> call.result = ExternalAnswers.sinr
                 [] OTHER -> call.in_coverage = ExternalAnswers.in_coverage

\* a step of setup_network's attach loop or of update_connections, taken
\* with channel model cm
ConnectionStep(cm) ==
    \/ InitialAttachUsing(cm)
    \/ UcCurrentUsing(cm)
    \/ UcMeasureUsing(cm)
    \/ UcDecideUsing(cm)
    \/ UcReconnectUsing(cm)

\* C26: a placeholder without external source returns, for every station,
\* at the place of the UE that update_connections turns to, for every
\* threshold, interferer set and fading draws, what SimplifiedChannelModel
\* returns; and every step that a run with the placeholder takes in the
\* attach loop and in update_connections is a step of the run with
\* SimplifiedChannelModel: the same measurements, the same decisions, the
\* same records.
ExternalEquivalentToDefault ==
    [][/\ pc = "uc_current"
             => \A g \in DOMAIN gnb, fading \in [DOMAIN gnb -> FadingLevels] :
                   LET cm == ExternalChannelModelPlaceholder(None)
                       pos == ue[EvaluatedUe].position
                   IN  /\ channel_model_calculate_rsrp(cm, gnb[g], pos, fading[g])
                             = calculate_rsrp(gnb[g], pos, fading[g])
                       /\ \A interfering_gnbs \in {gnbs, << g >>, <<>>} :
                             channel_model_calculate_sinr(cm, gnb, g, pos,
                                                          interfering_gnbs, fading)
                                 = calculate_sinr(gnb, g, pos, interfering_gnbs,
                                                  fading)
                       /\ \A t \in Thresholds :
                             channel_model_is_in_coverage(cm, gnb[g], pos, t,
                                                          fading[g])
                                 = is_in_coverage(gnb[g], pos, t, fading[g])
       /\ pc \in {"initial_attach", "uc_current", "uc_measure", "uc_decide",
                  "uc_reconnect"}
             => ConnectionStep(SimplifiedChannelModel)]_vars

\* a finished run with the placeholder in which a UE was attached, handed
\* over, lost coverage and was reattached
ExternalEquivalentWitness ==
    /\ pc = "returned"
    /\ channel_model = ExternalChannelModelPlaceholder(None)
    /\ HasEvent("initially connected")
    /\ HasEvent("Handover")
    /\ HasEvent("out of coverage")
    /\ HasEvent("reconnected")

\* calls k and l of loc.calls are calls of the same operation with the same
\* arguments: station, place, and threshold or interferers
SameCall(k, l) ==
    /\ loc.calls[k].op = loc.calls[l].op
    /\ loc.calls[k].gnb = loc.calls[l].gnb
    /\ loc.calls[k].ue_position = loc.calls[l].ue_position
    /\ loc.calls[k].threshold = loc.calls[l].threshold
    /\ loc.calls[k].interfering_gnbs = loc.calls[l].interfering_gnbs

SameResult(k, l) ==
    /\ loc.calls[k].result = loc.calls[l].result
    /\ loc.calls[k].in_coverage = loc.calls[l].in_coverage

\* C27: two calls of an operation of the channel model with the same
\* station and the same place return the same result, within a tick and
\* across ticks.
ChannelModelPure ==
    \A k, l \in 1..Len(loc.calls) : SameCall(k, l) => SameResult(k, l)

\* C27, amended: two calls with the same station, the same place and the
\* same fading draws return the same result, within a tick and across
\* ticks, whatever the UEs and the stations did in between.
ChannelModelPureGivenFading ==
    \A k, l \in 1..Len(loc.calls) :
        SameCall(k, l) /\ loc.calls[k].fading = loc.calls[l].fading
        => SameResult(k, l)

\* two calls of calculate_rsrp for the same station from the same place
\* with the same fading draw, two ticks apart, the UE attached to that
\* station at the first call and detached at the second
ChannelModelPureWitness ==
    /\ Len(loc.calls) = 2
    /\ SameCall(1, 2)
    /\ loc.calls[1].op = "calculate_rsrp"
    /\ loc.calls[1].fading = loc.calls[2].fading
    /\ loc.calls[1].result > NegInf
    /\ loc.calls[2].simulation_time = loc.calls[1].simulation_time + 2 * config.time_step
    /\ loc.calls[2].simulation_time = simulation_time
    /\ loc.calls[1].simulation_time = 0
    /\ loc.calls[1].gnb = 1
    /\ ue[1].connected_gnb = None
    /\ gnb[1].connected_ues = <<>>
    /\ ue[1].trajectory[Len(ue[1].trajectory) - 2] = loc.calls[1].ue_position

\* C28: a call of calculate_rsrp, calculate_sinr or is_in_coverage leaves
\* every station (its fields and connected_ues), every UE (its position and
\* connected_gnb), both logs and the simulation time as they were.
ChannelCallsChangeNothing ==
    [][loc' # loc
       => /\ gnb' = gnb
          /\ ue' = ue
          /\ event_log' = event_log
          /\ rsrp_log' = rsrp_log
          /\ simulation_time' = simulation_time
          /\ sink' = sink]_vars

\* after a call of calculate_sinr and a call of is_in_coverage, with every
\* station as interferer, for a station that serves the UE
ChannelCallsWitness ==
    /\ Len(loc.calls) = 2
    /\ loc.calls[1].op = "calculate_sinr"
    /\ loc.calls[2].op = "is_in_coverage"
    /\ loc.calls[2].in_coverage
    /\ loc.calls[1].gnb = ue[1].connected_gnb
    /\ loc.calls[2].gnb = ue[1].connected_gnb
    /\ Len(loc.calls[1].interfering_gnbs) = 2
    /\ gnb[ue[1].connected_gnb].connected_ues = << 1 >>
    /\ ue[1].position = loc.calls[2].ue_position

\* UE object o is a trajectory UE without waypoints or a group UE without
\* leader
Degraded(o) ==
    \/ o.mobility_type = "trajectory" /\ o.waypoints = <<>>
    \/ o.mobility_type = "group" /\ o.group_center = None

\* C29: a call of move leaves the position of a trajectory UE without
\* waypoints and of a group UE without leader as it was, and returns.
DegradedUeStaysPut ==
    [][Degraded(ue[MovedUe])
       => /\ ue'[MovedUe].position = ue[MovedUe].position
          /\ Degraded(ue'[MovedUe])]_vars

\* a group UE without leader right after a call of move that found it
\* moving and left it moving, next to a trajectory UE without waypoints
\* that is moving too; no call has paused either of them
DegradedWitness ==
    /\ loc.j >= 2
    /\ ue[ues[loc.i]].mobility_type = "group"
    /\ ue[ues[loc.i]].group_center = None
    /\ \A u \in DOMAIN ue :
          Degraded(ue[u]) => /\ ue[u].is_moving
                             /\ ue[u].trajectory = << ue[u].position >>
    /\ \E u \in DOMAIN ue :
          ue[u].mobility_type = "trajectory" /\ ue[u].waypoints = <<>>
    /\ \A u \in DOMAIN ue :
          ~Degraded(ue[u]) => Len(ue[u].trajectory) = 1

\* sequence s is the beginning of sequence t
IsPrefix(s, t) == Len(s) <= Len(t) /\ SubSeq(t, 1, Len(s)) = s

\* the simulation_time stamps of log never go down
NonDecreasing(log) ==
    \A k \in 1..(Len(log) - 1) : log[k].simulation_time <= log[k + 1].simulation_time

\* C30: every step of a run leaves the event log, the measurement log and
\* the trajectory of every UE as they were or with records added at the
\* end; and the simulation_time stamps of the event log and of the
\* measurement log are non-decreasing in log order.
LogsAppendOnly ==
    [][/\ IsPrefix(event_log, event_log')
       /\ IsPrefix(rsrp_log, rsrp_log')
       /\ \A u \in DOMAIN ue : IsPrefix(ue[u].trajectory, ue'[u].trajectory)
       /\ NonDecreasing(event_log')
       /\ NonDecreasing(rsrp_log')]_vars

\* a finished run of two ticks that was stopped from outside in its second
\* tick: both logs hold records of both ticks, events of update_connections
\* and random events among them, and every trajectory has a sample per tick
LogsAppendOnlyWitness ==
    /\ pc = "returned"
    /\ \A u \in DOMAIN ue : Len(ue[u].trajectory) = 3
    /\ \E k, l \in 1..Len(rsrp_log) :
          rsrp_log[k].simulation_time < rsrp_log[l].simulation_time
    /\ \E k, l, m \in 1..Len(event_log) :
          /\ k < l /\ l < m
          /\ event_log[k].message = "Handover"
          /\ event_log[l].message = "Stopping simulation..."
          /\ event_log[l].simulation_time = config.time_step
          /\ event_log[m].message \in {"Random Event: UE started",
                                       "Random Event: UE stopped", "out of coverage"}

\* the sample the move of the tick at time t appended to the trace of UE u
SampleOfTick(u, t) == (t \div config.time_step) + 2

\* UE u has been at the same place in every tick since the tick at time t
SamePlaceSince(u, t) ==
    \A k \in SampleOfTick(u, t)..Len(ue[u].trajectory) :
        ue[u].trajectory[k] = ue[u].trajectory[SampleOfTick(u, t)]

\* the log holds a handover of UE u since which u has not changed place
HandedOverHere(u) ==
    \E k \in 1..Len(event_log) :
        /\ event_log[k].message = "Handover"
        /\ event_log[k].ue_id = u
        /\ SamePlaceSince(u, event_log[k].simulation_time)

\* C31: without fading, a UE that was handed over and has not changed place
\* since is not handed over again and its serving station does not change:
\* over ticks in which its position stays the same there is at most one
\* handover, and no way back from B to A.
NoOscillation ==
    [][\A u \in DOMAIN ue :
          (InUpdateConnections /\ HandedOverHere(u))
          => /\ ue'[u].connected_gnb = ue[u].connected_gnb
             /\ ~(Logs("Handover") /\ event_log'[Len(event_log) + 1].ue_id = u)]_vars

\* a UE was handed from one station to another, paused, and went through the
\* whole of a later tick at the same place, still served by the target
NoOscillationWitness ==
    /\ pc = "events"
    /\ \E u \in DOMAIN ue, k \in 1..Len(event_log) :
          /\ event_log[k].message = "Handover"
          /\ event_log[k].ue_id = u
          /\ event_log[k].from_gnb # None
          /\ event_log[k].simulation_time < simulation_time
          /\ SamePlaceSince(u, event_log[k].simulation_time)
          /\ ~ue[u].is_moving
          /\ ue[u].connected_gnb = event_log[k].to_gnb

\* the place a group UE is heading for: leader.position + group_offset
GroupTarget(o) ==
    LET center_pos == ue[o.group_center].position
    IN  Rounded(center_pos.x + o.group_offset.x, center_pos.y + o.group_offset.y,
                center_pos)

Sign(n) == IF n > 0 THEN 1 ELSE IF n < 0 THEN -1 ELSE 0

\* C32: in every call of move that leaves a group UE with a leader moving,
\* the UE stays where it is if it is on leader.position + group_offset, ends
\* exactly on that place if it is at most speed * time_step away from it,
\* and otherwise goes speed * time_step towards it without passing it (in
\* whole cells: the full step along an axis, at an angle no more than the
\* step and no farther from the place).
GroupFollowing ==
    [][LET o == ue[MovedUe]
           n == ue'[MovedUe]
       IN  (o.mobility_type = "group" /\ o.group_center # None /\ n.is_moving)
           => LET target == GroupTarget(o)
                  dx == target.x - o.position.x
                  dy == target.y - o.position.y
                  step == StepLength(o, config.time_step)
              IN  /\ o.position = target => n.position = o.position
                  /\ Reaches(step, dx, dy) => n.position = target
                  /\ ~Reaches(step, dx, dy)
                     => /\ SquaredDistance(n.position, o.position) <= step * step
                        /\ SquaredDistance(n.position, target)
                              <= SquaredDistance(o.position, target)
                        /\ Sign(n.position.x - o.position.x) \in {0, Sign(dx)}
                        /\ Sign(n.position.y - o.position.y) \in {0, Sign(dy)}
                        /\ (dx = 0 \/ dy = 0)
                           => SquaredDistance(n.position, o.position) = step * step
      ]_vars

\* the record the step appends
Appended == event_log'[Len(event_log) + 1]

\* C33: a UE that has no serving station when update_connections comes to
\* it gets one in that tick if and only if the best RSRP measured for it in
\* the tick is above -105; it gets it by the handover branch, logged as a
\* "Handover" from None; otherwise it stays without station, nothing is
\* logged and no reattach is tried.  The reattach loop runs only for a UE
\* that lost its station in the same pass, and no other step of a tick
\* attaches a UE.
DisconnectedAttachesByHandover ==
    [][/\ (pc = "uc_decide" /\ Serving = None)
          => /\ ue'[EvaluatedUe].connected_gnb # None <=> BestOther > handover_threshold
             /\ pc' # "uc_reconnect"
             /\ IF BestOther > handover_threshold
                THEN /\ HandsOver
                     /\ Appended.from_gnb = None
                     /\ Len(event_log') = Len(event_log) + 1
                ELSE UNCHANGED <<ue, gnb, event_log>>
       /\ pc = "uc_reconnect"
          => /\ event_log[Len(event_log)].message = "out of coverage"
             /\ event_log[Len(event_log)].ue_id = EvaluatedUe
             /\ event_log[Len(event_log)].simulation_time = simulation_time
       /\ pc \in {"loop", "move", "uc_current", "uc_measure", "events", "advance"}
          => \A u \in DOMAIN ue :
                 ue[u].connected_gnb = None => ue'[u].connected_gnb = None
      ]_vars

\* a UE found no station at setup, went through a tick in which its best
\* station was inside coverage but not above -105 and nothing was logged,
\* and was attached in the next tick by a handover from None
DisconnectedWitness ==
    /\ pc = "events"
    /\ \E u \in DOMAIN ue, k \in 1..Len(event_log) :
          /\ event_log[k].message = "Handover"
          /\ event_log[k].ue_id = u
          /\ event_log[k].from_gnb = None
          /\ event_log[k].simulation_time = config.time_step
          /\ ue[u].connected_gnb = event_log[k].to_gnb
          /\ \A l \in 1..(k - 1) :
                 event_log[l].message \in {"could not find initial serving gNB",
                                            "Simulation started"}
          /\ \E r \in 1..Len(rsrp_log) :
                 /\ rsrp_log[r].ue_id = u
                 /\ rsrp_log[r].simulation_time = 0
                 /\ rsrp_log[r].rsrp >= coverage_threshold
                 /\ rsrp_log[r].rsrp <= handover_threshold

\* C34: every "out of coverage" record reports an RSRP below the coverage
\* threshold, and that RSRP is the one measured in the same tick for the
\* station the record names.
OutOfCoverageReportsDecision ==
    \A k \in 1..Len(event_log) :
        event_log[k].message = "out of coverage"
        => /\ event_log[k].rsrp < coverage_threshold
           /\ \E r \in 1..Len(rsrp_log) :
                  /\ rsrp_log[r].simulation_time = event_log[k].simulation_time
                  /\ rsrp_log[r].ue_id = event_log[k].ue_id
                  /\ rsrp_log[r].gnb_id = event_log[k].from_gnb
                  /\ rsrp_log[r].rsrp = event_log[k].rsrp

\* C35: without fading, when setup_network has returned and whenever
\* update_connections has returned, the serving station of every connected
\* UE has an RSRP at or above the coverage threshold at the place of the UE.
ServingInCoverage ==
    pc \in {"start_ues", "events"}
    => \A u \in DOMAIN ue :
           ue[u].connected_gnb # None
           => channel_model_calculate_rsrp(channel_model, gnb[ue[u].connected_gnb],
                                           ue[u].position, 0) >= coverage_threshold

\* update_connections has returned from a pass in which a UE that had moved
\* out of reach of its serving station was detached and attached again
ServingInCoverageWitness ==
    /\ pc = "events"
    /\ "fading" \notin config.free
    /\ \E u \in DOMAIN ue, k \in 1..Len(event_log) :
          /\ event_log[k].message = "out of coverage"
          /\ event_log[k].ue_id = u
          /\ event_log[k].simulation_time = simulation_time
          /\ ue[u].connected_gnb \notin {None, event_log[k].from_gnb}
          /\ calculate_rsrp(gnb[event_log[k].from_gnb], ue[u].position, 0)
                < coverage_threshold

\* C36: whenever update_connections hands a connected UE over, the RSRP of
\* the target used in the decision (the best one measured in the tick for
\* another station) is greater than current_rsrp, the RSRP of the serving
\* station used in the same decision; the event reports these two values.
HandoverImproves ==
    [][(pc = "uc_decide" /\ Serving # None /\ HandsOver)
       => /\ BestOther > loc.current_rsrp
          /\ Appended.rsrp = loc.current_rsrp
          /\ Appended.to_rsrp = BestOther]_vars

\* update_connections has returned from a pass in which it handed a UE from
\* a station below the measurement threshold to one above it that was
\* better by no more than the offset
HandoverImprovesWitness ==
    /\ pc = "events"
    /\ \E k \in 1..Len(event_log) :
          /\ event_log[k].message = "Handover"
          /\ event_log[k].from_gnb # None
          /\ event_log[k].simulation_time = simulation_time
          /\ event_log[k].to_rsrp > event_log[k].rsrp
          /\ event_log[k].to_rsrp - event_log[k].rsrp <= a3_offset

\* the number of times e is listed in s
Listings(s, e) == Cardinality({k \in 1..Len(s) : s[k] = e})

\* C37: after any sequence of connect_to_gnb calls no UE is listed twice in
\* the connected_ues of a gNB, and no UE is listed in the connected_ues of
\* two gNBs.
ListedAtMostOnce ==
    \A u \in DOMAIN ue :
        /\ \A g \in DOMAIN gnb : Listings(gnb[g].connected_ues, u) <= 1
        /\ \A g \in DOMAIN gnb, h \in DOMAIN gnb :
               (u \in Range(gnb[g].connected_ues) /\ u \in Range(gnb[h].connected_ues))
               => g = h

\* a UE was connected to a station, connected to it again, connected to the
\* other station and disconnected, while the other UE is listed by a station
ListedAtMostOnceWitness ==
    /\ pc = "connect"
    /\ Len(loc.calls) = 4
    /\ \E u \in DOMAIN ue, g \in DOMAIN gnb, h \in DOMAIN gnb :
          /\ g # h
          /\ loc.calls = << [ue_id |-> u, gnb |-> g], [ue_id |-> u, gnb |-> g],
                            [ue_id |-> u, gnb |-> h], [ue_id |-> u, gnb |-> None] >>
          /\ ue[u].connected_gnb = None
          /\ \E v \in DOMAIN ue : v # u /\ ue[v].connected_gnb = h

\* C38: at every tick boundary the position of each UE is the last sample
\* of its trajectory, and a UE has exactly one sample from its creation at
\* setup until its first move.
PositionIsLastSample ==
    /\ pc = "loop"
       => \A u \in DOMAIN ue :
              ue[u].trajectory[Len(ue[u].trajectory)] = ue[u].position
    /\ (pc \in {"initial_attach", "start_ues"} \/ (pc = "loop" /\ simulation_time = 0))
       => \A u \in DOMAIN ue : Len(ue[u].trajectory) = 1
    /\ (pc = "move" /\ simulation_time = 0)
       => \A k \in loc.i..Len(ues) : Len(ue[ues[k]].trajectory) = 1

\* the boundary after the last tick of a run: every UE has one sample more
\* than the ticks that ran, and a UE is away from where it was created
PositionIsLastSampleWitness ==
    /\ pc = "loop"
    /\ simulation_time = config.duration
    /\ simulation_time >= 2 * config.time_step
    /\ \A u \in DOMAIN ue : Len(ue[u].trajectory) = Tick + 1
    /\ \E u \in DOMAIN ue : ue[u].position # ue[u].trajectory[1]

\* the number of events of the log that carry the message
Occurrences(message) ==
    Cardinality({k \in 1..Len(event_log) : event_log[k].message = message})

\* a step in which a call met its guard: an outside call that returned at
\* line 465 or 518, or the finally clause calling stop_simulation after the
\* simulation was stopped from outside
ReturnsAtGuard ==
    \/ outside' # outside
    \/ pc \in {"finally", "finally_raising"} /\ ~is_running /\ pc' # pc

\* C39: start_simulation called while is_running, and stop_simulation called
\* while not is_running, leave the time, the network, the UEs, the log and the
\* files as they were; and a run that returned logged "Stopping simulation..."
\* once and "Simulation stopped" once, however often stop was requested
LifecycleReentrancy ==
    /\ [][ReturnsAtGuard =>
            UNCHANGED <<is_running, simulation_time, gnbs, ues, gnb, ue,
                        event_log, rsrp_log, sink>>]_vars
    /\ [](pc = "returned" =>
            /\ Occurrences("Stopping simulation...") = 1
            /\ Occurrences("Simulation stopped") = 1)

\* a run that returned before its duration without an interrupt, hence after
\* an outside stop and a second stop from the finally clause, and that saw an
\* outside call return at its guard
LifecycleReentrancyWitness ==
    /\ pc = "returned"
    /\ simulation_time < config.duration
    /\ ~HasEvent("Simulation interrupted by user")
    /\ outside = "start_simulation"
    /\ Occurrences("Simulation stopped") = 1

\* a step in which a call of stop_simulation returns: the call from outside,
\* or the call of the finally clause
StopSimulationReturns ==
    \/ is_running /\ ~is_running'
    \/ pc = "finally" /\ pc' = "returned"

\* C40: when stop_simulation returns, every UE has is_running False and no
\* process handle, whatever starts, failed starts and stops came before; and
\* each "Random Event: UE started" names a UE that was not running before
\* the call of generate_random_events that logged it
UesStoppedAfterStop ==
    /\ [][StopSimulationReturns =>
            \A u \in DOMAIN ue' :
                ~ue'[u].is_running /\ ue'[u].process = "none"]_vars
    /\ [][\A k \in (Len(event_log) + 1)..Len(event_log') :
            event_log'[k].message = "Random Event: UE started" =>
                ~ue[event_log'[k].ue_id].is_running]_vars
====
